---- MODULE Spec2Model ----
(***************************************************************************)
(* FinWise backend: authentication and token lifecycle.                    *)
(*                                                                         *)
(* The persistent store (users, refresh tokens, OAuth accounts,            *)
(* verification requests, parent profiles) is shared by request handlers   *)
(* that run concurrently.  A handler is split at its store round trips     *)
(* (every awaited prisma call): one action is one store statement together *)
(* with the synchronous code that follows it up to the next statement.     *)
(***************************************************************************)
EXTENDS Integers, FiniteSets, Sequences, TLC

\* ------------------------------------------------------------------ bounds
NumProcs == 2        \* request handlers in flight at once
MaxTokens == 3       \* refresh tokens minted in one behaviour
MaxTime == 2         \* last clock tick
MaxCalls == 4        \* operations begun in one behaviour
MaxUsers == 2        \* user rows created in one behaviour (signup / OAuth)
MaxAccountCalls == 3 \* operations begun in one behaviour that holds signup / OAuth requests

\* ------------------------------------------------------- program constants
RefreshTtl == 1      \* JWT_REFRESH_TTL ('7d'), in clock ticks
AccessTtl == 1       \* JWT_ACCESS_TTL ('15m'), in clock ticks
RevokedGrace == 2    \* 30 days of grace for revoked records, in clock ticks
ResetTtl == 1        \* life of a password-reset token ('1h'), in clock ticks

Procs == 1..NumProcs
Providers == {"google", "apple"}
Roles == {"PARENT", "CHILD"}
NoTime == -1
NoId == 0
NoHash == [pw |-> "", cost |-> ""]

VARIABLES
    users,                \* User rows
    refreshTokens,        \* RefreshToken rows
    oauthAccounts,        \* OAuthAccount rows
    verificationRequests, \* VerificationRequest rows
    parentProfiles,       \* ParentProfile rows
    now,                  \* the clock (new Date())
    pc,                   \* per handler: where it stands
    loc,                  \* per handler: its request, locals and response
    minted,               \* refresh tokens handed out so far, with their origin
    oauthLog,             \* (provider, sub, user id) of every 200 of POST /auth/oauth
    contained,            \* token ids minted before a successful password change
    calls,                \* operations begun so far
    configured            \* providers whose client id the deployment has set

store == <<users, refreshTokens, oauthAccounts, verificationRequests, parentProfiles>>
vars == <<users, refreshTokens, oauthAccounts, verificationRequests, parentProfiles,
          now, pc, loc, minted, oauthLog, contained, calls, configured>>

\* ------------------------------------------------------------- JwtService
AccessSecret == "access-secret"
RefreshSecret == "refresh-secret"

\* jwt.sign(payload, secret, {expiresIn, issuer, audience})
JwtSign(secret, typ, userId, email, role, tokenId, ttl) ==
    [key |-> secret, typ |-> typ, userId |-> userId, email |-> email, role |-> role,
     tokenId |-> tokenId, iss |-> "finwise-api", aud |-> "finwise-app", exp |-> now + ttl]

\* jwt.verify(token, secret, {issuer, audience}): "ok", or the error it throws
JwtVerify(token, secret) ==
    IF token.key # secret THEN "invalid signature"
    ELSE IF token.iss # "finwise-api" \/ token.aud # "finwise-app" THEN "jwt claim invalid"
    ELSE IF now >= token.exp THEN "jwt expired"
    ELSE "ok"

generateAccessToken(userId, email, role) ==
    JwtSign(AccessSecret, "", userId, email, role, NoId, AccessTtl)

generateRefreshToken(userId, tokenId) ==
    JwtSign(RefreshSecret, "", userId, "", "", tokenId, RefreshTtl)

verifyRefreshToken(token) == JwtVerify(token, RefreshSecret)

generatePasswordResetToken(userId, email) ==
    JwtSign(AccessSecret, "password-reset", userId, email, "", NoId, ResetTtl)

verifyPasswordResetToken(token) == JwtVerify(token, AccessSecret)

\* a digest that is the token itself
hashTokenIsRawToken(token) == token

\* createHash('sha256').update(token).digest('hex'): one-way, injective on the model's tokens
hashToken(token) == <<"sha256", token>>

getRefreshTokenExpiration == now + RefreshTtl

\* ------------------------------------------------------------ store reads
UserById(id) == {u \in users : u.id = id}
TokenByHash(h) == {t \in refreshTokens : t.tokenHash = h}
IsRevoked(t) == t.revokedAt # NoTime
IsExpired(t) == t.expiresAt < now
IsActive(t) == ~IsRevoked(t) /\ ~IsExpired(t)
MintedTokens == {m.token : m \in minted}
RecordOf(token) == TokenByHash(hashToken(token))

\* ----------------------------------------------------------- TokenService
\* randomUUID(): an id no earlier token has
FreshTokenId == Cardinality(minted) + 1

\* prisma.refreshToken.create in generateTokenPair
NewTokenRecord(userId, tokenId, refreshToken) ==
    [id |-> tokenId, userId |-> userId, tokenHash |-> hashToken(refreshToken),
     expiresAt |-> getRefreshTokenExpiration, revokedAt |-> NoTime]

\* generateTokenPair(userId, email, role): the pair it returns
TokenPair(userId, email, role) ==
    [accessToken |-> generateAccessToken(userId, email, role),
     refreshToken |-> generateRefreshToken(userId, FreshTokenId)]

\* generateTokenPair: the store after it
generateTokenPair(userId, email, role) ==
    refreshTokens \cup
        {NewTokenRecord(userId, FreshTokenId, TokenPair(userId, email, role).refreshToken)}

\* refreshTokens without the revokedAt test
RefreshCheckSkipsRevoked(token) ==
    LET v == verifyRefreshToken(token)
        found == RecordOf(token)
    IN  IF v # "ok" THEN v
        ELSE IF found = {} THEN "Invalid refresh token"
        ELSE LET t == CHOOSE r \in found : TRUE
                 owner == CHOOSE u \in users : u.id = t.userId
             IN  IF IsExpired(t) THEN "Refresh token has expired"
                 ELSE IF owner.deleted THEN "User account has been deleted"
                 ELSE "ok"

\* refreshTokens with the owner's deletedAt tested before the record's state
RefreshCheckDeletedFirst(token) ==
    LET v == verifyRefreshToken(token)
        found == RecordOf(token)
    IN  IF v # "ok" THEN v
        ELSE IF found = {} THEN "Invalid refresh token"
        ELSE LET t == CHOOSE r \in found : TRUE
                 owner == CHOOSE u \in users : u.id = t.userId
             IN  IF owner.deleted THEN "User account has been deleted"
                 ELSE IF IsRevoked(t) THEN "Refresh token has been revoked"
                 ELSE IF IsExpired(t) THEN "Refresh token has expired"
                 ELSE "ok"

\* refreshTokens without the test of the owner's deletedAt
RefreshCheckIgnoresDeleted(token) ==
    LET v == verifyRefreshToken(token)
        found == RecordOf(token)
    IN  IF v # "ok" THEN v
        ELSE IF found = {} THEN "Invalid refresh token"
        ELSE LET t == CHOOSE r \in found : TRUE
             IN  IF IsRevoked(t) THEN "Refresh token has been revoked"
                 ELSE IF IsExpired(t) THEN "Refresh token has expired"
                 ELSE "ok"

\* refreshTokens, up to its first store write: "ok" or the message of the error thrown
RefreshCheck(token) ==
    LET v == verifyRefreshToken(token)
        found == RecordOf(token)
    IN  IF v # "ok" THEN v
        ELSE IF found = {} THEN "Invalid refresh token"
        ELSE LET t == CHOOSE r \in found : TRUE
                 owner == CHOOSE u \in users : u.id = t.userId
             IN  IF IsRevoked(t) THEN "Refresh token has been revoked"
                 ELSE IF IsExpired(t) THEN "Refresh token has expired"
                 ELSE IF owner.deleted THEN "User account has been deleted"
                 ELSE "ok"

\* rotation that forgets to revoke the old record
RevokeByIdLeavesActive(id) == refreshTokens

\* prisma.refreshToken.update({where: {id}, data: {revokedAt: new Date()}})
RevokeById(id) ==
    {IF t.id = id THEN [t EXCEPT !.revokedAt = now] ELSE t : t \in refreshTokens}

\* revokeRefreshToken that looks the record up by the raw token, not by its digest
revokeRefreshTokenByRawToken(token) ==
    {IF t.tokenHash = token THEN [t EXCEPT !.revokedAt = now] ELSE t : t \in refreshTokens}

\* revokeRefreshToken: updateMany({where: {tokenHash}, data: {revokedAt: new Date()}})
revokeRefreshToken(token) ==
    {IF t.tokenHash = hashToken(token) THEN [t EXCEPT !.revokedAt = now] ELSE t :
        t \in refreshTokens}

\* revoke-all that revokes only the user's oldest unrevoked record
revokeAllUserTokensOnlyOldest(userId) ==
    LET mine == {t \in refreshTokens : t.userId = userId /\ t.revokedAt = NoTime}
    IN  {IF t \in mine /\ (\A o \in mine : t.id <= o.id)
           THEN [t EXCEPT !.revokedAt = now] ELSE t : t \in refreshTokens}

\* revoke-all without the revokedAt: null filter: every record of the user is stamped
revokeAllUserTokensRestamps(userId) ==
    {IF t.userId = userId THEN [t EXCEPT !.revokedAt = now] ELSE t : t \in refreshTokens}

\* revokeAllUserTokens: updateMany({where: {userId, revokedAt: null}, ...})
revokeAllUserTokens(userId) ==
    {IF t.userId = userId /\ t.revokedAt = NoTime THEN [t EXCEPT !.revokedAt = now] ELSE t :
        t \in refreshTokens}

\* cleanupExpiredTokens: the rows deleteMany selects
CleanupSelected ==
    {t \in refreshTokens :
        \/ t.expiresAt < now
        \/ (t.revokedAt # NoTime /\ t.revokedAt < now - RevokedGrace)}

\* -------------------------------------------------------- PasswordService
CurrentCost == "m=65536,t=3,p=4"
Passwords == {"password-a", "password-b"}
TooShort == "short"

\* argon2.hash(password, {argon2id, memoryCost, timeCost, parallelism})
hash(password) == [pw |-> password, cost |-> CurrentCost]

\* argon2.verify(hash, password): it throws on a string that is not an encoded hash,
\* and otherwise tells whether the password is the one that was hashed
Argon2Verify(h, password) ==
    [thrown |-> h.cost = "", match |-> h.cost # "" /\ h.pw = password]

\* a verify that lets a string pass that argon2 cannot decode
verifyFailsOpen(h, password) ==
    LET r == Argon2Verify(h, password) IN IF r.thrown THEN TRUE ELSE r.match

\* a verify that accepts every password for a well-formed hash
verifyAnyPassword(h, password) == h.cost # ""

\* PasswordService.verify: argon2.verify, false when it throws
verify(h, password) ==
    LET r == Argon2Verify(h, password) IN IF r.thrown THEN FALSE ELSE r.match

\* ------------------------------------------------------- request handlers
Idle == [op |-> "idle", snap |-> [none |-> TRUE], resp |-> [status |-> 0, message |-> ""]]

\* errors.* of utils/response: the envelope's status and message
Failure(status, message) == [status |-> status, message |-> message]

\* the handler answers: res.status(..).json(..)
Respond(p, op, resp) ==
    /\ pc' = [pc EXCEPT ![p] = "done"]
    /\ loc' = [loc EXCEPT ![p] = [op |-> op, snap |-> Idle.snap, resp |-> resp]]

\* the handler awaits its next store statement, holding its locals
Goto(p, label, op, snap) ==
    /\ pc' = [pc EXCEPT ![p] = label]
    /\ loc' = [loc EXCEPT ![p] = [op |-> op, snap |-> snap, resp |-> Idle.resp]]

\* a request arrives and takes the first free handler slot
Begin(p) ==
    /\ pc[p] = "idle"
    /\ \A q \in Procs : q < p => pc[q] # "idle"
    /\ calls < MaxCalls
    /\ calls' = calls + 1
    /\ UNCHANGED configured

\* an operation that runs outside the request handlers begins
BeginJob == calls < MaxCalls /\ calls' = calls + 1 /\ UNCHANGED configured

\* handlers that have passed their checks and will mint a token pair
Minting == {"refresh_revoke", "refresh_issue"}
MintBudget == Cardinality(minted) + Cardinality({p \in Procs : pc[p] \in Minting}) < MaxTokens

\* a token no key of the service signed
ForgedToken == [key |-> "forged", typ |-> "", userId |-> 1, email |-> "", role |-> "",
                tokenId |-> 1, iss |-> "finwise-api", aud |-> "finwise-app",
                exp |-> MaxTime + RefreshTtl]
\* a request body without a refresh token
NoToken == [key |-> "", typ |-> "", userId |-> NoId, email |-> "", role |-> "",
            tokenId |-> NoId, iss |-> "", aud |-> "", exp |-> 0]
Presentable == MintedTokens \cup {ForgedToken}

\* validate(refreshSchema, body): refreshToken is a string of at least one character
RefreshBodyValid(body) == body.refreshToken # NoToken

\* the owner a lookup returns with every field but the role, which is the default
StoredTokenUserDefaultRole(t) ==
    [(CHOOSE u \in users : u.id = t.userId) EXCEPT !.role = "PARENT"]

\* storedToken.user: include {user: {select: {id, email, role, deletedAt}}}
StoredTokenUser(t) == CHOOSE u \in users : u.id = t.userId

\* POST /auth/refresh, through the lookup and the checks of refreshTokens
RefreshStart(p, body) ==
    /\ Begin(p)
    /\ MintBudget
    /\ UNCHANGED <<store, now, minted, oauthLog, contained>>
    /\ IF ~RefreshBodyValid(body)
         THEN Respond(p, "refresh", Failure(400, "Validation failed"))
       ELSE LET check == RefreshCheck(body.refreshToken) IN
         IF check # "ok"
           THEN Respond(p, "refresh", Failure(401, check))
         ELSE LET t == CHOOSE r \in RecordOf(body.refreshToken) : TRUE
                  owner == StoredTokenUser(t)
              IN  Goto(p, "refresh_revoke", "refresh",
                       [id |-> t.id, userId |-> owner.id, email |-> owner.email,
                        role |-> owner.role])

\* refreshTokens: revoke the old record (update by id throws when the row is gone)
RefreshRevoke(p) ==
    /\ UNCHANGED <<calls, configured>>
    /\ pc[p] = "refresh_revoke"
    /\ UNCHANGED <<users, oauthAccounts, verificationRequests, parentProfiles, now,
                   minted, oauthLog, contained>>
    /\ IF \E t \in refreshTokens : t.id = loc[p].snap.id
         THEN /\ refreshTokens' = RevokeById(loc[p].snap.id)
              /\ Goto(p, "refresh_issue", "refresh", loc[p].snap)
         ELSE /\ UNCHANGED refreshTokens
              /\ Respond(p, "refresh", Failure(401, "Record to update not found"))

\* refreshTokens: generateTokenPair for the owner read at the lookup, then 200
RefreshIssue(p) ==
    /\ UNCHANGED <<calls, configured>>
    /\ pc[p] = "refresh_issue"
    /\ LET s == loc[p].snap
           pair == TokenPair(s.userId, s.email, s.role)
       IN  /\ refreshTokens' = generateTokenPair(s.userId, s.email, s.role)
           /\ minted' = minted \cup {[token |-> pair.refreshToken, from |-> s.id]}
           /\ Respond(p, "refresh",
                      [status |-> 200, message |-> "", accessToken |-> pair.accessToken,
                       refreshToken |-> pair.refreshToken])
    /\ UNCHANGED <<users, oauthAccounts, verificationRequests, parentProfiles, now,
                   oauthLog, contained>>

\* POST /auth/logout: revoke when a token is supplied, 200 whatever happens, also
\* when revokeRefreshToken throws (thrown).  The slot keeps the token of the request
\* and whether the call revoked a record that was Active.
Logout(p, body, thrown) ==
    /\ Begin(p)
    /\ refreshTokens' = IF body.refreshToken # NoToken /\ ~thrown
                          THEN revokeRefreshToken(body.refreshToken)
                          ELSE refreshTokens
    /\ pc' = [pc EXCEPT ![p] = "done"]
    /\ loc' = [loc EXCEPT ![p] =
                 [op |-> "logout",
                  snap |-> [token |-> body.refreshToken,
                            revokedActive |->
                                /\ ~thrown
                                /\ \E r \in RecordOf(body.refreshToken) : IsActive(r)],
                  resp |-> [status |-> 200, message |-> "Logged out successfully"]]]
    /\ UNCHANGED <<users, oauthAccounts, verificationRequests, parentProfiles, now,
                   minted, oauthLog, contained>>

\* the handler has answered; its slot takes the next request
Finish(p) ==
    /\ UNCHANGED <<calls, configured>>
    /\ pc[p] = "done"
    /\ pc' = [pc EXCEPT ![p] = "idle"]
    /\ loc' = [loc EXCEPT ![p] = Idle]
    /\ UNCHANGED <<store, now, minted, oauthLog, contained>>

\* POST /auth/login, its last step: generateTokenPair for the user whose password verified
IssueTokens(u) ==
    /\ BeginJob
    /\ u.passwordHash # NoHash
    /\ MintBudget
    /\ refreshTokens' = generateTokenPair(u.id, u.email, u.role)
    /\ minted' = minted \cup {[token |-> TokenPair(u.id, u.email, u.role).refreshToken,
                               from |-> NoId]}
    /\ UNCHANGED <<users, oauthAccounts, verificationRequests, parentProfiles, now,
                   pc, loc, oauthLog, contained>>

\* cleanupExpiredTokens, run periodically
Cleanup ==
    /\ BeginJob
    /\ CleanupSelected # {}
    /\ refreshTokens' = refreshTokens \ CleanupSelected
    /\ UNCHANGED <<users, oauthAccounts, verificationRequests, parentProfiles, now,
                   pc, loc, minted, oauthLog, contained>>

\* time passes
Tick ==
    /\ UNCHANGED <<calls, configured>>
    /\ now < MaxTime
    /\ now' = now + 1
    /\ UNCHANGED <<store, pc, loc, minted, oauthLog, contained>>

\* a user row is soft-deleted (deletedAt set)
SoftDelete(u) ==
    /\ BeginJob
    /\ ~u.deleted
    /\ users' = (users \ {u}) \cup {[u EXCEPT !.deleted = TRUE]}
    /\ UNCHANGED <<refreshTokens, oauthAccounts, verificationRequests, parentProfiles, now,
                   pc, loc, minted, oauthLog, contained>>

\* validate(changePasswordSchema, body): currentPassword min(1), newPassword min(8)
ChangePasswordBodyValid(body) == body.currentPassword # "" /\ body.newPassword # TooShort

\* prisma.user.update({where: {id}, data: {passwordHash}})
SetPasswordHash(id, h) ==
    {IF u.id = id THEN [u EXCEPT !.passwordHash = h] ELSE u : u \in users}

\* POST /auth/change-password, through the user lookup and the password check;
\* identity is req.user.id as requireAuth attached it (NoId: none attached)
ChangePasswordStart(p, identity, body) ==
    /\ Begin(p)
    /\ UNCHANGED <<store, now, minted, oauthLog, contained>>
    /\ IF identity = NoId
         THEN Respond(p, "changePassword", Failure(401, "Unauthorized"))
       ELSE IF ~ChangePasswordBodyValid(body)
         THEN Respond(p, "changePassword", Failure(400, "Validation failed"))
       ELSE IF UserById(identity) = {} \/ (\E u \in UserById(identity) : u.passwordHash = NoHash)
         THEN Respond(p, "changePassword", Failure(404, "User not found"))
       ELSE LET u == CHOOSE r \in UserById(identity) : TRUE IN
         IF ~verify(u.passwordHash, body.currentPassword)
           THEN Respond(p, "changePassword", Failure(401, "Current password is incorrect"))
         ELSE Goto(p, "changepw_update", "changePassword",
                   [userId |-> u.id, passwordHash |-> hash(body.newPassword)])

\* change-password: store the new hash
ChangePasswordUpdate(p) ==
    /\ UNCHANGED <<calls, configured>>
    /\ pc[p] = "changepw_update"
    /\ users' = SetPasswordHash(loc[p].snap.userId, loc[p].snap.passwordHash)
    /\ Goto(p, "changepw_revoke", "changePassword", loc[p].snap)
    /\ UNCHANGED <<refreshTokens, oauthAccounts, verificationRequests, parentProfiles, now,
                   minted, oauthLog, contained>>

\* change-password: revokeAllUserTokens, then 200
ChangePasswordRevoke(p) ==
    /\ UNCHANGED <<calls, configured>>
    /\ pc[p] = "changepw_revoke"
    /\ refreshTokens' = revokeAllUserTokens(loc[p].snap.userId)
    /\ contained' = contained \cup
           {m.token.tokenId : m \in {x \in minted : x.token.userId = loc[p].snap.userId}}
    /\ Respond(p, "changePassword",
               [status |-> 200, message |-> "Password changed successfully"])
    /\ UNCHANGED <<users, oauthAccounts, verificationRequests, parentProfiles, now,
                   minted, oauthLog>>

\* ------------------------------------------- the token lifecycle, end to end
\* two registered users: a PARENT with a password and an OAuth-only PARENT
SeedUsers ==
    {[id |-> 1, email |-> "a@x.io", passwordHash |-> hash("password-a"), role |-> "PARENT",
      deleted |-> FALSE],
     [id |-> 2, email |-> "b@x.io", passwordHash |-> NoHash, role |-> "PARENT",
      deleted |-> FALSE]}

InitToken ==
    /\ users = SeedUsers
    /\ refreshTokens = {}
    /\ oauthAccounts = {[provider |-> "GOOGLE", providerId |-> "sub-b", userId |-> 2]}
    /\ verificationRequests =
         {[id |-> u.id, userId |-> u.id, role |-> u.role, status |-> "PENDING",
           idImageUrl |-> IF u.id = 1 THEN "url" ELSE ""] : u \in SeedUsers}
    /\ parentProfiles = {[userId |-> 1]}
    /\ now = 0
    /\ pc = [p \in Procs |-> "idle"]
    /\ loc = [p \in Procs |-> Idle]
    /\ minted = {}
    /\ oauthLog = {}
    /\ contained = {}
    /\ calls = 0
    /\ configured = Providers

RefreshBodies == {[refreshToken |-> t] : t \in Presentable \cup {NoToken}}
ChangePasswordBodies ==
    {[currentPassword |-> c, newPassword |-> n] : c \in Passwords, n \in {"password-b", TooShort}}

NextToken ==
    \/ \E p \in Procs, body \in RefreshBodies : RefreshStart(p, body)
    \/ \E p \in Procs : RefreshRevoke(p)
    \/ \E p \in Procs : RefreshIssue(p)
    \/ \E p \in Procs, body \in RefreshBodies, thrown \in BOOLEAN : Logout(p, body, thrown)
    \/ \E p \in Procs : Finish(p)
    \/ \E u \in users : IssueTokens(u)
    \/ \E u \in users : SoftDelete(u)
    \/ Cleanup
    \/ Tick

SpecToken == InitToken /\ [][NextToken]_vars

NextPassword ==
    \/ \E p \in Procs, body \in RefreshBodies : RefreshStart(p, body)
    \/ \E p \in Procs : RefreshRevoke(p)
    \/ \E p \in Procs : RefreshIssue(p)
    \/ \E p \in Procs, id \in {NoId} \cup {u.id : u \in users}, body \in ChangePasswordBodies :
           ChangePasswordStart(p, id, body)
    \/ \E p \in Procs : ChangePasswordUpdate(p)
    \/ \E p \in Procs : ChangePasswordRevoke(p)
    \/ \E p \in Procs : Finish(p)
    \/ \E u \in users : IssueTokens(u)
    \/ Tick

SpecPassword == InitToken /\ [][NextPassword]_vars

\* ------------------------------------------------------------- validators
ValidEmails == {"a@x.io", "A@x.io", "b@x.io", "c@x.io"}

\* two spellings of one address
SlotEmails == {"a@x.io", "A@x.io"}
NotAnEmail == "not-an-email"

\* z.string().email()
IsEmail(s) == s \in ValidEmails

\* z.string().toLowerCase()
Lower(s) == IF s = "A@x.io" THEN "a@x.io" ELSE s

\* validate(signupSchema, body): role literal, email, password min(8)
signupSchemaValid(body) ==
    body.role \in Roles /\ IsEmail(body.email) /\ body.password # TooShort

\* validate(oauthSchema, body): provider enum, idToken min(1)
oauthSchemaValid(body) == body.provider \in Providers /\ body.idToken.kind # "empty"

\* -------------------------------------------------- store: users and links
\* the lookup by email restricted to rows that are not soft-deleted
UserByEmailNotDeleted(email) == {u \in users : u.email = email /\ ~u.deleted}

\* prisma.user.findUnique({where: {email}}): no filter on deletedAt
UserByEmail(email) == {u \in users : u.email = email}

\* cuid() of a new row: a value no row of the table has
NextUserId == Cardinality(users) + 1
NextRequestId == Cardinality(verificationRequests) + 1

NewUser(id, email, passwordHash, role) ==
    [id |-> id, email |-> email, passwordHash |-> passwordHash, role |-> role,
     deleted |-> FALSE]

NewVerificationRequest(userId, role, idImageUrl) ==
    [id |-> NextRequestId, userId |-> userId, role |-> role, status |-> "PENDING",
     idImageUrl |-> idImageUrl]

\* the store refuses a second User row with the same email
UniqueEmailViolated(email) == \E u \in users : u.email = email

\* a store that accepts a second OAuthAccount row with the same (provider, providerId)
UniqueLinkNotEnforced(provider, providerId) == FALSE

\* the store refuses a second OAuthAccount row with the same (provider, providerId)
UniqueLinkViolated(provider, providerId) ==
    \E a \in oauthAccounts : a.provider = provider /\ a.providerId = providerId

\* what a failing store statement throws
StoreErrors == {"Invalid prisma invocation", "Can't reach database server"}

\* prisma.$transaction without rollback: the rows written before the failure stay
TransactionKeepsPartialWrites(before, written, committed) == written

\* prisma.$transaction(async (tx) => ...): all of its writes, or none
Transaction(before, written, committed) == IF committed THEN written ELSE before

\* ------------------------------------------------------ POST /auth/signup
\* the answer of signup, with what the handler did on the way: store reads made,
\* hashes computed, and the step it stopped at
SignupAnswer(status, message, reads, hashes, userId, step) ==
    [status |-> status, message |-> message, reads |-> reads, hashes |-> hashes,
     userId |-> userId, step |-> step]

\* the checks of signup with the image check moved before the email lookup
SignupPrecheckImageFirst(body) ==
    IF ~signupSchemaValid(body)
    THEN SignupAnswer(400, "Validation failed", 0, 0, NoId, "checks")
    ELSE IF body.role = "PARENT" /\ ~body.file
    THEN SignupAnswer(415, "ID image is required for parent accounts", 0, 0, NoId, "checks")
    ELSE IF UserByEmail(Lower(body.email)) # {}
    THEN SignupAnswer(409, "Email already registered", 1, 0, NoId, "checks")
    ELSE SignupAnswer(0, "", 1, 1, NoId, "checks")

\* signup up to the password hash: validation, email lookup, image check, hash;
\* status 0 when every check passed (reads: store reads made, hashes: hashes computed)
SignupPrecheck(body) ==
    IF ~signupSchemaValid(body)
    THEN SignupAnswer(400, "Validation failed", 0, 0, NoId, "checks")
    ELSE IF UserByEmail(Lower(body.email)) # {}
    THEN SignupAnswer(409, "Email already registered", 1, 0, NoId, "checks")
    ELSE IF body.role = "PARENT" /\ ~body.file
    THEN SignupAnswer(415, "ID image is required for parent accounts", 1, 0, NoId, "checks")
    ELSE SignupAnswer(0, "", 1, 1, NoId, "checks")

\* the request is validated, the email looked up, the password hashed
SignupStart(p, body) ==
    /\ Begin(p)
    /\ calls < MaxAccountCalls
    /\ LET r == SignupPrecheck(body) IN
         IF r.status # 0
         THEN Respond(p, "signup", r)
         ELSE Goto(p, IF body.file THEN "signup_upload" ELSE "signup_tx", "signup",
                   [email |-> Lower(body.email), role |-> body.role,
                    passwordHash |-> hash(body.password), file |-> body.file,
                    idImageUrl |-> "", userId |-> NoId, verificationStatus |-> "",
                    reads |-> r.reads, hashes |-> r.hashes])
    /\ UNCHANGED <<store, now, minted, oauthLog, contained>>

\* uploadService.uploadFile(req.file, "id-verification"): the URL, or it throws
SignupUpload(p, uploaded) ==
    /\ pc[p] = "signup_upload"
    /\ LET s == loc[p].snap IN
         IF uploaded
         THEN Goto(p, "signup_tx", "signup", [s EXCEPT !.idImageUrl = "url"])
         ELSE Respond(p, "signup",
                      SignupAnswer(500, "Signup failed", s.reads, s.hashes, NoId, "upload"))
    /\ UNCHANGED <<store, now, minted, oauthLog, contained, calls, configured>>

\* a signup transaction that creates a ParentProfile whatever the role
SignupWritesProfileForAll(s, fault) ==
    LET userOk == fault # "user" /\ ~UniqueEmailViolated(s.email)
        requestOk == userOk /\ fault # "verification"
        profileOk == requestOk /\ fault # "profile"
    IN  [users |-> IF userOk
                   THEN users \cup {NewUser(NextUserId, s.email, s.passwordHash, s.role)}
                   ELSE users,
         verificationRequests |->
             IF requestOk
             THEN verificationRequests
                      \cup {NewVerificationRequest(NextUserId, s.role, s.idImageUrl)}
             ELSE verificationRequests,
         parentProfiles |-> IF profileOk
                            THEN parentProfiles \cup {[userId |-> NextUserId]}
                            ELSE parentProfiles,
         committed |-> profileOk /\ fault # "abandoned"]

\* the statements of the signup transaction, in order, up to the first that fails
\* (fault: the statement the store fails on its own account, or the abandoned request)
SignupWrites(s, fault) ==
    LET userOk == fault # "user" /\ ~UniqueEmailViolated(s.email)
        requestOk == userOk /\ fault # "verification"
        profileOk == requestOk /\ (s.role = "PARENT" => fault # "profile")
    IN  [users |-> IF userOk
                   THEN users \cup {NewUser(NextUserId, s.email, s.passwordHash, s.role)}
                   ELSE users,
         verificationRequests |->
             IF requestOk
             THEN verificationRequests
                      \cup {NewVerificationRequest(NextUserId, s.role, s.idImageUrl)}
             ELSE verificationRequests,
         parentProfiles |-> IF profileOk /\ s.role = "PARENT"
                            THEN parentProfiles \cup {[userId |-> NextUserId]}
                            ELSE parentProfiles,
         committed |-> profileOk /\ fault # "abandoned"]

SignupFaults == {"none", "user", "verification", "profile", "abandoned"}

\* prisma.$transaction: User, VerificationRequest and (PARENT) ParentProfile
SignupTx(p, fault) ==
    /\ pc[p] = "signup_tx"
    /\ Cardinality(users) < MaxUsers
    /\ LET s == loc[p].snap
           w == SignupWrites(s, fault)
       IN  /\ users' = Transaction(users, w.users, w.committed)
           /\ verificationRequests' =
                  Transaction(verificationRequests, w.verificationRequests, w.committed)
           /\ parentProfiles' = Transaction(parentProfiles, w.parentProfiles, w.committed)
           /\ IF w.committed
              THEN Goto(p, "signup_tokens", "signup",
                        [s EXCEPT !.userId = NextUserId,
                                  !.verificationStatus =
                                      NewVerificationRequest(NextUserId, s.role,
                                                             s.idImageUrl).status])
              ELSE Respond(p, "signup",
                           SignupAnswer(500, "Signup failed", s.reads, s.hashes, NoId,
                                        "transaction"))
    /\ UNCHANGED <<refreshTokens, oauthAccounts, now, minted, oauthLog, contained,
                   calls, configured>>

\* the notifications of a signup: PARENT gets the welcome mail and, with an image,
\* the admin-review mail; CHILD gets the welcome mail
SignupMails(s) ==
    IF s.role = "PARENT" /\ s.file THEN {"sent", "welcome failed", "admin failed"}
    ELSE {"sent", "welcome failed"}

\* generateTokenPair, then the awaited mailerService sends, then the answer;
\* a send that throws lands in the handler's catch
SignupTokens(p, mail) ==
    /\ pc[p] = "signup_tokens"
    /\ LET s == loc[p].snap IN
         /\ mail \in SignupMails(s)
         /\ refreshTokens' = generateTokenPair(s.userId, s.email, s.role)
         /\ minted' = minted \cup {[token |-> TokenPair(s.userId, s.email, s.role).refreshToken,
                                    from |-> NoId]}
         /\ Respond(p, "signup",
                    IF mail = "sent"
                    THEN SignupAnswer(201, "", s.reads, s.hashes, s.userId, mail)
                             @@ [verificationStatus |-> s.verificationStatus]
                    ELSE SignupAnswer(500, "Signup failed", s.reads, s.hashes, s.userId, mail))
    /\ UNCHANGED <<users, oauthAccounts, verificationRequests, parentProfiles, now,
                   oauthLog, contained, calls, configured>>

\* ------------------------------------------------------- POST /auth/oauth
Subs == {"sub-1", "sub-2"}

\* an id token, by what the provider's verification makes of it
GoodIdToken(sub, email) == [kind |-> "good", sub |-> sub, email |-> email]
BadIdToken == [kind |-> "bad", sub |-> "", email |-> ""]
EmptyIdToken == [kind |-> "empty", sub |-> "", email |-> ""]

\* data.provider.toUpperCase()
Upper(provider) == IF provider = "google" THEN "GOOGLE" ELSE "APPLE"

\* OAuthService.verifyGoogleToken / verifyAppleToken: the payload, or the error thrown
verifyProviderToken(provider, idToken) ==
    IF provider \notin configured
    THEN [error |-> IF provider = "google" THEN "Google OAuth not configured"
                    ELSE "Apple OAuth not configured",
          sub |-> "", email |-> ""]
    ELSE IF idToken.kind # "good"
    THEN [error |-> IF provider = "google" THEN "Invalid Google token"
                    ELSE "Invalid Apple token",
          sub |-> "", email |-> ""]
    ELSE [error |-> "", sub |-> idToken.sub, email |-> idToken.email]

\* error.message.includes("Invalid")
IncludesInvalid(message) ==
    message \in {"Invalid Google token", "Invalid Apple token", "Invalid prisma invocation"}

\* a catch that answers every error as 401
OAuthCatchAlways401(message) == Failure(401, message)

\* the catch of oauth: 401 with the message when it includes "Invalid", else 500
OAuthCatch(message) ==
    IF IncludesInvalid(message) THEN Failure(401, message)
    ELSE Failure(500, "OAuth authentication failed")

\* prisma.oAuthAccount.findUnique({where: {provider_providerId}})
FindOAuthAccount(provider, providerId) ==
    {a \in oauthAccounts : a.provider = provider /\ a.providerId = providerId}

\* the user of the existing-link path taken from the provider's email instead
LinkedUserByEmail(account, email) ==
    IF UserByEmail(email) # {} THEN CHOOSE u \in UserByEmail(email) : TRUE
    ELSE CHOOSE u \in users : u.id = account.userId

\* existingOAuth.user: the row the link points at
LinkedUser(account, email) == CHOOSE u \in users : u.id = account.userId

\* isNewUser of the merge path turned on
IsNewUserUnlessLinked(path) == path # "existing"

\* isNewUser: set only where the handler creates the user
IsNewUser(path) == path = "create"

OAuthSnap(provider, sub, email, user, path) ==
    [provider |-> provider, sub |-> sub, email |-> email, userId |-> user.id,
     userEmail |-> user.email, role |-> user.role, path |-> path]

NoUser == NewUser(NoId, "", NoHash, "")

\* validation, the provider's verification, the lookup of the link
OAuthStart(p, body) ==
    /\ Begin(p)
    /\ calls < MaxAccountCalls
    /\ IF ~oauthSchemaValid(body)
       THEN Respond(p, "oauth", Failure(400, "Validation failed"))
       ELSE LET v == verifyProviderToken(body.provider, body.idToken)
                found == FindOAuthAccount(Upper(body.provider), v.sub)
            IN  IF v.error # ""
                THEN Respond(p, "oauth", OAuthCatch(v.error))
                ELSE IF v.email = ""
                THEN Respond(p, "oauth", Failure(400, "Email not provided by OAuth provider"))
                ELSE IF found # {}
                THEN Goto(p, "oauth_tokens", "oauth",
                          OAuthSnap(Upper(body.provider), v.sub, v.email,
                                    LinkedUser(CHOOSE a \in found : TRUE, v.email),
                                    "existing"))
                ELSE Goto(p, "oauth_find_user", "oauth",
                          OAuthSnap(Upper(body.provider), v.sub, v.email, NoUser, "none"))
    /\ UNCHANGED <<store, now, minted, oauthLog, contained>>

\* prisma.user.findUnique({where: {email: oauthPayload.email}})
OAuthFindUser(p) ==
    /\ pc[p] = "oauth_find_user"
    /\ LET s == loc[p].snap
           found == UserByEmail(s.email)
       IN  IF found # {}
           THEN Goto(p, "oauth_link", "oauth",
                     OAuthSnap(s.provider, s.sub, s.email, CHOOSE u \in found : TRUE, "merge"))
           ELSE Goto(p, "oauth_create", "oauth", [s EXCEPT !.path = "create"])
    /\ UNCHANGED <<store, now, minted, oauthLog, contained, calls, configured>>

\* merge path: prisma.oAuthAccount.create for the user found by email
OAuthLink(p, error) ==
    /\ pc[p] = "oauth_link"
    /\ LET s == loc[p].snap IN
         IF UniqueLinkViolated(s.provider, s.sub)
         THEN /\ Respond(p, "oauth", OAuthCatch(error))
              /\ UNCHANGED oauthAccounts
         ELSE /\ oauthAccounts' = oauthAccounts \cup
                      {[provider |-> s.provider, providerId |-> s.sub, userId |-> s.userId]}
              /\ Goto(p, "oauth_tokens", "oauth", s)
    /\ UNCHANGED <<users, refreshTokens, verificationRequests, parentProfiles, now,
                   minted, oauthLog, contained, calls, configured>>

\* a new-account transaction that commits without the VerificationRequest
OAuthWritesWithoutRequest(s, fault) ==
    LET userOk == fault # "user" /\ ~UniqueEmailViolated(s.email)
        linkOk == userOk /\ fault # "account" /\ ~UniqueLinkViolated(s.provider, s.sub)
    IN  [users |-> IF userOk
                   THEN users \cup {NewUser(NextUserId, s.email, NoHash, "PARENT")}
                   ELSE users,
         oauthAccounts |->
             IF linkOk
             THEN oauthAccounts \cup
                      {[provider |-> s.provider, providerId |-> s.sub, userId |-> NextUserId]}
             ELSE oauthAccounts,
         verificationRequests |-> verificationRequests,
         committed |-> linkOk /\ fault # "abandoned"]

\* the statements of the new-account transaction, in order, up to the first that fails
OAuthWrites(s, fault) ==
    LET userOk == fault # "user" /\ ~UniqueEmailViolated(s.email)
        linkOk == userOk /\ fault # "account" /\ ~UniqueLinkViolated(s.provider, s.sub)
        requestOk == linkOk /\ fault # "verification"
    IN  [users |-> IF userOk
                   THEN users \cup {NewUser(NextUserId, s.email, NoHash, "PARENT")}
                   ELSE users,
         oauthAccounts |->
             IF linkOk
             THEN oauthAccounts \cup
                      {[provider |-> s.provider, providerId |-> s.sub, userId |-> NextUserId]}
             ELSE oauthAccounts,
         verificationRequests |->
             IF requestOk
             THEN verificationRequests \cup {NewVerificationRequest(NextUserId, "PARENT", "")}
             ELSE verificationRequests,
         committed |-> requestOk /\ fault # "abandoned"]

OAuthFaults == {"none", "user", "account", "verification", "abandoned"}

\* new-account path: the transaction, then the awaited welcome mail
OAuthCreate(p, fault, error, mailed) ==
    /\ pc[p] = "oauth_create"
    /\ Cardinality(users) < MaxUsers
    /\ LET s == loc[p].snap
           w == OAuthWrites(s, fault)
       IN  /\ users' = Transaction(users, w.users, w.committed)
           /\ oauthAccounts' = Transaction(oauthAccounts, w.oauthAccounts, w.committed)
           /\ verificationRequests' =
                  Transaction(verificationRequests, w.verificationRequests, w.committed)
           /\ IF ~w.committed
              THEN Respond(p, "oauth", OAuthCatch(error))
              ELSE IF ~mailed
              THEN Respond(p, "oauth", OAuthCatch("SMTP connection refused"))
              ELSE Goto(p, "oauth_tokens", "oauth",
                        OAuthSnap(s.provider, s.sub, s.email,
                                  NewUser(NextUserId, s.email, NoHash, "PARENT"), "create"))
    /\ UNCHANGED <<refreshTokens, parentProfiles, now, minted, oauthLog, contained,
                   calls, configured>>

\* generateTokenPair for the resolved user, then the 200
OAuthTokens(p) ==
    /\ pc[p] = "oauth_tokens"
    /\ LET s == loc[p].snap IN
         /\ refreshTokens' = generateTokenPair(s.userId, s.userEmail, s.role)
         /\ minted' = minted \cup
                {[token |-> TokenPair(s.userId, s.userEmail, s.role).refreshToken,
                  from |-> NoId]}
         /\ oauthLog' = oauthLog \cup {<<s.provider, s.sub, s.userId>>}
         /\ Respond(p, "oauth",
                    [status |-> 200, message |-> "", isNewUser |-> IsNewUser(s.path),
                     userId |-> s.userId, path |-> s.path])
    /\ UNCHANGED <<users, oauthAccounts, verificationRequests, parentProfiles, now,
                   contained, calls, configured>>

\* --------------------------------------- account creation, from an empty store
InitSignup ==
    /\ users = {}
    /\ refreshTokens = {}
    /\ oauthAccounts = {}
    /\ verificationRequests = {}
    /\ parentProfiles = {}
    /\ now = 0
    /\ pc = [p \in Procs |-> "idle"]
    /\ loc = [p \in Procs |-> Idle]
    /\ minted = {}
    /\ oauthLog = {}
    /\ contained = {}
    /\ calls = 0
    /\ configured \in {Providers, {"apple"}}

SignupBodies ==
    {[role |-> r, email |-> e, password |-> "password-a", file |-> f] :
         r \in Roles, e \in SlotEmails \cup {NotAnEmail}, f \in BOOLEAN}

IdTokens ==
    {GoodIdToken(s, e) : s \in Subs, e \in SlotEmails}
        \cup {GoodIdToken("sub-1", ""), BadIdToken, EmptyIdToken}

OAuthBodies == {[provider |-> v, idToken |-> t] : v \in Providers, t \in IdTokens}

NextSignup ==
    \/ \E p \in Procs, body \in SignupBodies : SignupStart(p, body)
    \/ \E p \in Procs, uploaded \in BOOLEAN : SignupUpload(p, uploaded)
    \/ \E p \in Procs, fault \in SignupFaults : SignupTx(p, fault)
    \/ \E p \in Procs, mail \in {"sent", "welcome failed", "admin failed"} :
           SignupTokens(p, mail)
    \/ \E p \in Procs, body \in OAuthBodies : OAuthStart(p, body)
    \/ \E p \in Procs : OAuthFindUser(p)
    \/ \E p \in Procs, error \in StoreErrors : OAuthLink(p, error)
    \/ \E p \in Procs, fault \in OAuthFaults, error \in StoreErrors, mailed \in BOOLEAN :
           OAuthCreate(p, fault, error, mailed)
    \/ \E p \in Procs : OAuthTokens(p)
    \/ \E p \in Procs : Finish(p)
    \/ \E u \in users : SoftDelete(u)

SpecSignup == InitSignup /\ [][NextSignup]_vars

\* ------------------------------------------------------- POST /auth/login
\* validate(loginSchema, body): email, password min(1)
loginSchemaValid(body) == IsEmail(body.email) /\ body.password # ""

\* prisma.user.findFirst({where: {email, deletedAt: null}})
ActiveUserByEmail(email) == {u \in users : u.email = email /\ ~u.deleted}

\* the parameters of a hash made before the current ones were set
OldCost == "m=4096,t=3,p=1"

\* a needsRehash that accepts every hash
needsRehashNever(h) == FALSE

\* PasswordService.needsRehash
needsRehash(h) == h.cost # CurrentCost

\* errors.*: the code that goes with a status
ErrorCode(status) ==
    CASE status = 400 -> "BAD_REQUEST"
      [] status = 401 -> "UNAUTHORIZED"
      [] status = 403 -> "FORBIDDEN"
      [] status = 404 -> "NOT_FOUND"
      [] status = 409 -> "CONFLICT"
      [] status = 415 -> "UNSUPPORTED_MEDIA"
      [] OTHER -> "INTERNAL_ERROR"

InvalidLogin == Failure(401, "Invalid email or password")

\* a login that tells the caller which check failed
LoginRefusalNamesCause(found, password) ==
    IF found = {} THEN Failure(401, "No account with this email")
    ELSE LET u == CHOOSE x \in found : TRUE IN
         IF u.passwordHash = NoHash THEN Failure(401, "This account signs in with a provider")
         ELSE IF ~verify(u.passwordHash, password) THEN InvalidLogin
         ELSE Idle.resp

\* the checks of login on the row found: the 401 it answers, or no answer (status 0)
LoginRefusal(found, password) ==
    IF found = {} THEN InvalidLogin
    ELSE LET u == CHOOSE x \in found : TRUE IN
         IF u.passwordHash = NoHash THEN InvalidLogin
         ELSE IF ~verify(u.passwordHash, password) THEN InvalidLogin
         ELSE Idle.resp

\* validation, the lookup of the user, the password check
LoginStart(p, body) ==
    /\ Begin(p)
    /\ IF ~loginSchemaValid(body)
       THEN Respond(p, "login", Failure(400, "Validation failed"))
       ELSE LET found == ActiveUserByEmail(Lower(body.email))
                refusal == LoginRefusal(found, body.password)
            IN  IF refusal # Idle.resp
                THEN Respond(p, "login", refusal)
                ELSE LET u == CHOOSE x \in found : TRUE IN
                     Goto(p, IF needsRehash(u.passwordHash) THEN "login_rehash"
                             ELSE "login_tokens",
                          "login",
                          [userId |-> u.id, email |-> u.email, role |-> u.role,
                           newHash |-> hash(body.password)])
    /\ UNCHANGED <<store, now, minted, oauthLog, contained>>

\* the stored hash needs rehashing: prisma.user.update with the new hash
LoginRehash(p) ==
    /\ pc[p] = "login_rehash"
    /\ users' = SetPasswordHash(loc[p].snap.userId, loc[p].snap.newHash)
    /\ Goto(p, "login_tokens", "login", loc[p].snap)
    /\ UNCHANGED <<refreshTokens, oauthAccounts, verificationRequests, parentProfiles, now,
                   minted, oauthLog, contained, calls, configured>>

\* generateTokenPair for the user read at the lookup, then the 200
LoginTokens(p) ==
    /\ pc[p] = "login_tokens"
    /\ LET s == loc[p].snap IN
         /\ refreshTokens' = generateTokenPair(s.userId, s.email, s.role)
         /\ minted' = minted \cup {[token |-> TokenPair(s.userId, s.email, s.role).refreshToken,
                                    from |-> NoId]}
         /\ Respond(p, "login", [status |-> 200, message |-> "", userId |-> s.userId])
    /\ UNCHANGED <<users, oauthAccounts, verificationRequests, parentProfiles, now,
                   oauthLog, contained, calls, configured>>

\* ------------------------------ login and OAuth, from one registered account
\* a PARENT who signed up when the hash parameters were the old ones
InitLogin ==
    /\ users = {NewUser(1, "a@x.io", [pw |-> "password-a", cost |-> OldCost], "PARENT")}
    /\ refreshTokens = {}
    /\ oauthAccounts = {}
    /\ verificationRequests =
         {[id |-> 1, userId |-> 1, role |-> "PARENT", status |-> "PENDING",
           idImageUrl |-> "url"]}
    /\ parentProfiles = {[userId |-> 1]}
    /\ now = 0
    /\ pc = [p \in Procs |-> "idle"]
    /\ loc = [p \in Procs |-> Idle]
    /\ minted = {}
    /\ oauthLog = {}
    /\ contained = {}
    /\ calls = 0
    /\ configured = Providers

LoginBodies ==
    {[email |-> e, password |-> w] : e \in {"a@x.io", "b@x.io", NotAnEmail}, w \in Passwords}

LoginOAuthBodies ==
    {[provider |-> "google", idToken |-> GoodIdToken("sub-1", e)] : e \in {"a@x.io", "b@x.io"}}

NextLogin ==
    \/ \E p \in Procs, body \in LoginBodies : LoginStart(p, body)
    \/ \E p \in Procs : LoginRehash(p)
    \/ \E p \in Procs : LoginTokens(p)
    \/ \E p \in Procs, body \in LoginOAuthBodies : OAuthStart(p, body)
    \/ \E p \in Procs : OAuthFindUser(p)
    \/ \E p \in Procs, error \in StoreErrors : OAuthLink(p, error)
    \/ \E p \in Procs, fault \in OAuthFaults, error \in StoreErrors, mailed \in BOOLEAN :
           OAuthCreate(p, fault, error, mailed)
    \/ \E p \in Procs : OAuthTokens(p)
    \/ \E p \in Procs : Finish(p)
    \/ \E u \in users : SoftDelete(u)

SpecLogin == InitLogin /\ [][NextLogin]_vars

\* --------------------------------------------- middleware: requireAuth & co
\* JwtService.verifyAccessToken: "ok", or the error jwt.verify throws
verifyAccessToken(token) == JwtVerify(token, AccessSecret)

\* error.name of what jwt.verify throws
ErrorName(v) == IF v = "jwt expired" THEN "TokenExpiredError" ELSE "JsonWebTokenError"

\* req.headers.authorization
NoHeader == [scheme |-> "", token |-> NoToken]

\* authHeader && authHeader.startsWith('Bearer ')
HasBearer(header) == header.scheme = "Bearer"

\* prisma.user.findFirst({where: {id, deletedAt: null}})
ActiveUserById(id) == {u \in users : u.id = id /\ ~u.deleted}

\* req.user when nothing is attached
NoIdentity == [id |-> NoId, email |-> "", role |-> ""]

\* what a middleware did: the response it sent (status 0: none), how often it called
\* next, and req.user after it
Outcome(status, message, next, user) ==
    [status |-> status, message |-> message, next |-> next, user |-> user]

\* req.user filled from the token's claims
AttachedIdentityFromClaims(user, payload) ==
    [id |-> payload.userId, email |-> payload.email, role |-> payload.role]

\* req.user = {id: user.id, email: user.email, role: user.role}
AttachedIdentity(user, payload) == [id |-> user.id, email |-> user.email, role |-> user.role]

\* requireAuth up to the user lookup: "ok", or the message of the 401
RequireAuthCheck(header) ==
    IF ~HasBearer(header) THEN "Missing or invalid authorization header"
    ELSE LET v == verifyAccessToken(header.token) IN
         IF v = "ok" THEN "ok"
         ELSE IF ErrorName(v) = "JsonWebTokenError" THEN "Invalid token"
         ELSE "Token expired"

RequireAuthStart(p, header) ==
    /\ Begin(p)
    /\ LET check == RequireAuthCheck(header) IN
         IF check # "ok"
         THEN Respond(p, "requireAuth", Outcome(401, check, 0, NoIdentity))
         ELSE Goto(p, "auth_lookup", "requireAuth",
                   [userId |-> header.token.userId, email |-> header.token.email,
                    role |-> header.token.role])
    /\ UNCHANGED <<store, now, minted, oauthLog, contained>>

\* the user lookup (thrown: the store fails it), then req.user and next()
RequireAuthLookup(p, thrown) ==
    /\ pc[p] = "auth_lookup"
    /\ LET found == ActiveUserById(loc[p].snap.userId) IN
         IF thrown
         THEN Respond(p, "requireAuth", Outcome(401, "Authentication failed", 0, NoIdentity))
         ELSE IF found = {}
         THEN Respond(p, "requireAuth",
                      Outcome(401, "User not found or deleted", 0, NoIdentity))
         ELSE Respond(p, "requireAuth",
                      Outcome(0, "", 1,
                              AttachedIdentity(CHOOSE u \in found : TRUE, loc[p].snap)))
    /\ UNCHANGED <<store, now, minted, oauthLog, contained, calls, configured>>

\* requireRole that lets every attached identity pass
RoleOutcomeAnyIdentity(identity, allowed) ==
    IF identity = NoIdentity THEN Outcome(401, "Authentication required", 0, identity)
    ELSE Outcome(0, "", 1, identity)

\* requireRole(...roles) on a request with req.user = identity
RoleOutcome(identity, allowed) ==
    IF identity = NoIdentity THEN Outcome(401, "Authentication required", 0, identity)
    ELSE IF identity.role \notin allowed THEN Outcome(403, "Requires one of", 0, identity)
    ELSE Outcome(0, "", 1, identity)

\* requireRole runs on a request that an authentication middleware passed on
RequireRole(p, allowed) ==
    /\ pc[p] = "done"
    /\ loc[p].op \in {"requireAuth", "optionalAuth"}
    /\ loc[p].resp.next = 1
    /\ Respond(p, "requireRole", RoleOutcome(loc[p].resp.user, allowed))
    /\ UNCHANGED <<store, now, minted, oauthLog, contained, calls, configured>>

\* optionalAuth that does not verify the bearer token
OptionalAuthCheckAnyBearer(header) == HasBearer(header)

\* optionalAuth: a bearer token is there and verifies
OptionalAuthCheck(header) ==
    HasBearer(header) /\ verifyAccessToken(header.token) = "ok"

OptionalAuthStart(p, header) ==
    /\ Begin(p)
    /\ IF OptionalAuthCheck(header)
       THEN Goto(p, "optional_lookup", "optionalAuth", [userId |-> header.token.userId])
       ELSE Respond(p, "optionalAuth", Outcome(0, "", 1, NoIdentity))
    /\ UNCHANGED <<store, now, minted, oauthLog, contained>>

\* the user lookup (thrown: the store fails it, the catch ignores it), then next()
OptionalAuthLookup(p, thrown) ==
    /\ pc[p] = "optional_lookup"
    /\ LET found == ActiveUserById(loc[p].snap.userId) IN
         IF thrown \/ found = {}
         THEN Respond(p, "optionalAuth", Outcome(0, "", 1, NoIdentity))
         ELSE LET u == CHOOSE x \in found : TRUE IN
              Respond(p, "optionalAuth",
                      Outcome(0, "", 1, [id |-> u.id, email |-> u.email, role |-> u.role]))
    /\ UNCHANGED <<store, now, minted, oauthLog, contained, calls, configured>>

\* -------------------------------------- the middleware, on two registered users
InitAuth ==
    /\ users = {NewUser(1, "a@x.io", hash("password-a"), "PARENT"),
                NewUser(2, "b@x.io", hash("password-b"), "CHILD")}
    /\ refreshTokens = {}
    /\ oauthAccounts = {}
    /\ verificationRequests =
         {[id |-> i, userId |-> i, role |-> IF i = 1 THEN "PARENT" ELSE "CHILD",
           status |-> "PENDING", idImageUrl |-> IF i = 1 THEN "url" ELSE ""] : i \in {1, 2}}
    /\ parentProfiles = {[userId |-> 1]}
    /\ now = 0
    /\ pc = [p \in Procs |-> "idle"]
    /\ loc = [p \in Procs |-> Idle]
    /\ minted = {}
    /\ oauthLog = {}
    /\ contained = {}
    /\ calls = 0
    /\ configured = Providers

\* the access tokens generateAccessToken has made up to now: for the users as they
\* are, for user 1 when the row still said CHILD and old@x.io, and for a user whose
\* row is gone
IssuedAccessTokens ==
    {[generateAccessToken(c.id, c.email, c.role) EXCEPT !.exp = at + AccessTtl] :
        c \in {[id |-> u.id, email |-> u.email, role |-> u.role] : u \in users}
                 \cup {[id |-> 1, email |-> "old@x.io", role |-> "CHILD"],
                       [id |-> 3, email |-> "c@x.io", role |-> "PARENT"]},
        at \in 0..now}

\* a refresh token of user 1, presented as a bearer token
BearerRefreshToken == generateRefreshToken(1, 1)

\* the password-reset tokens mailed to user 1 up to now, presented as bearer tokens
BearerResetTokens ==
    {[generatePasswordResetToken(1, "a@x.io") EXCEPT !.exp = at + ResetTtl] : at \in 0..now}

AuthHeaders ==
    {NoHeader, [scheme |-> "Bearer", token |-> NoToken]}
        \cup {[scheme |-> "Bearer", token |-> t] :
                 t \in IssuedAccessTokens \cup {ForgedToken, BearerRefreshToken}
                          \cup BearerResetTokens}
        \cup {[scheme |-> "Basic", token |-> t] : t \in IssuedAccessTokens}

AllowedRoles == {{"PARENT"}, {"CHILD"}, {"PARENT", "CHILD"}}

NextAuth ==
    \/ \E p \in Procs, header \in AuthHeaders : RequireAuthStart(p, header)
    \/ \E p \in Procs, thrown \in BOOLEAN : RequireAuthLookup(p, thrown)
    \/ \E p \in Procs, header \in AuthHeaders : OptionalAuthStart(p, header)
    \/ \E p \in Procs, thrown \in BOOLEAN : OptionalAuthLookup(p, thrown)
    \/ \E p \in Procs, allowed \in AllowedRoles : RequireRole(p, allowed)
    \/ \E p \in Procs : Finish(p)
    \/ \E u \in users : SoftDelete(u)
    \/ Tick

SpecAuth == InitAuth /\ [][NextAuth]_vars

\* ------------------------------------------- PasswordService, on its own
\* what callers hand to hash and verify
VerifyInputs == Passwords \cup {TooShort}

\* strings found in the passwordHash column that argon2 did not make: nothing, and
\* a password stored as it was typed
MalformedHashes == {NoHash} \cup {[pw |-> w, cost |-> ""] : w \in VerifyInputs}

\* hashes argon2 made when the parameters were other ones
OldHashes == {[pw |-> w, cost |-> OldCost] : w \in VerifyInputs}

\* what a caller holds between hash and verify
Hashed(h, made) == [hash |-> h, made |-> made]

\* passwordService.hash(password)
PasswordHash(p, password) ==
    /\ Begin(p)
    /\ Goto(p, "hashed", "verify", Hashed(hash(password), password))
    /\ UNCHANGED <<store, now, minted, oauthLog, contained>>

\* a caller reads the passwordHash column
PasswordStored(p, h) ==
    /\ Begin(p)
    /\ Goto(p, "hashed", "verify", Hashed(h, h.pw))
    /\ UNCHANGED <<store, now, minted, oauthLog, contained>>

\* passwordService.verify(hash, candidate)
PasswordVerify(p, candidate) ==
    /\ pc[p] = "hashed"
    /\ Respond(p, "verify",
               [status |-> 0, message |-> "", hash |-> loc[p].snap.hash,
                made |-> loc[p].snap.made, candidate |-> candidate,
                result |-> verify(loc[p].snap.hash, candidate)])
    /\ UNCHANGED <<store, now, minted, oauthLog, contained, calls, configured>>

InitVerify ==
    /\ users = {}
    /\ refreshTokens = {}
    /\ oauthAccounts = {}
    /\ verificationRequests = {}
    /\ parentProfiles = {}
    /\ now = 0
    /\ pc = [p \in Procs |-> "idle"]
    /\ loc = [p \in Procs |-> Idle]
    /\ minted = {}
    /\ oauthLog = {}
    /\ contained = {}
    /\ calls = 0
    /\ configured = Providers

NextVerify ==
    \/ \E p \in Procs, password \in VerifyInputs : PasswordHash(p, password)
    \/ \E p \in Procs, h \in MalformedHashes \cup OldHashes : PasswordStored(p, h)
    \/ \E p \in Procs, candidate \in VerifyInputs : PasswordVerify(p, candidate)
    \/ \E p \in Procs : Finish(p)

SpecVerify == InitVerify /\ [][NextVerify]_vars

\* ------------------------------- POST /auth/forgot-password, /auth/reset-password
\* validate(forgotPasswordSchema, body)
forgotPasswordSchemaValid(body) == IsEmail(body.email)

GenericForgotAnswer ==
    [status |-> 200,
     message |-> "If an account exists with this email, a password reset link has been sent."]

\* a forgot-password that tells the caller when no account has the email
ForgotPasswordAnswerNamesUnknown(found) ==
    IF found = {} THEN Failure(404, "No account with this email") ELSE GenericForgotAnswer

\* the answer of forgot-password for the rows the lookup returned
ForgotPasswordAnswer(found) == GenericForgotAnswer

\* forgot-password: the lookup (thrown: the store fails it), the answer, then for a
\* user with a password the reset token and the mail (mailed: the send succeeds).
\* The slot keeps what the handler did after answering.
ForgotPassword(p, body, thrown, mailed) ==
    /\ Begin(p)
    /\ pc' = [pc EXCEPT ![p] = "done"]
    /\ IF ~forgotPasswordSchemaValid(body)
       THEN loc' = [loc EXCEPT ![p] =
                      [op |-> "forgotPassword", snap |-> Idle.snap,
                       resp |-> Failure(400, "Validation failed")]]
       ELSE LET found == IF thrown THEN {} ELSE ActiveUserByEmail(Lower(body.email))
                proceeds == \E u \in found : u.passwordHash # NoHash
            IN  loc' = [loc EXCEPT ![p] =
                          [op |-> "forgotPassword",
                           snap |-> [found |-> found # {},
                                     resetToken |->
                                         IF proceeds
                                         THEN LET u == CHOOSE x \in found : TRUE
                                              IN  generatePasswordResetToken(u.id, u.email)
                                         ELSE NoToken,
                                     mailed |-> proceeds /\ mailed],
                           resp |-> IF thrown THEN GenericForgotAnswer
                                    ELSE ForgotPasswordAnswer(found)]]
    /\ UNCHANGED <<store, now, minted, oauthLog, contained>>

\* validate(resetPasswordSchema, body): token min(1), password min(8)
resetPasswordSchemaValid(body) == body.token # NoToken /\ body.password # TooShort

\* prisma.user.findFirst({where: {id, email, deletedAt: null}})
ActiveUserByIdAndEmail(id, email) ==
    {u \in users : u.id = id /\ u.email = email /\ ~u.deleted}

\* the checks of reset-password: the error it answers, or no answer (status 0)
ResetPasswordCheck(body) ==
    IF ~resetPasswordSchemaValid(body) THEN Failure(400, "Validation failed")
    ELSE IF verifyPasswordResetToken(body.token) # "ok"
    THEN Failure(400, "Invalid or expired reset token")
    ELSE IF body.token.typ # "password-reset" THEN Failure(400, "Invalid token type")
    ELSE LET found == ActiveUserByIdAndEmail(body.token.userId, body.token.email)
         IN  IF found = {} THEN Failure(404, "User not found")
             ELSE IF \E u \in found : u.passwordHash = NoHash
             THEN Failure(400, "This account does not have a password. Please use OAuth login.")
             ELSE Idle.resp

\* reset-password through the token checks, the user lookup and the hash
ResetPasswordStart(p, body) ==
    /\ Begin(p)
    /\ LET refusal == ResetPasswordCheck(body) IN
         IF refusal # Idle.resp
         THEN Respond(p, "resetPassword", refusal)
         ELSE LET u == CHOOSE x \in ActiveUserByIdAndEmail(body.token.userId,
                                                          body.token.email) : TRUE
              IN  Goto(p, "reset_update", "resetPassword",
                       [userId |-> u.id, email |-> u.email, role |-> u.role,
                        passwordHash |-> hash(body.password), token |-> body.token])
    /\ UNCHANGED <<store, now, minted, oauthLog, contained>>

\* reset-password: prisma.user.update with the new hash
ResetPasswordUpdate(p) ==
    /\ pc[p] = "reset_update"
    /\ users' = SetPasswordHash(loc[p].snap.userId, loc[p].snap.passwordHash)
    /\ Goto(p, "reset_revoke", "resetPassword", loc[p].snap)
    /\ UNCHANGED <<refreshTokens, oauthAccounts, verificationRequests, parentProfiles, now,
                   minted, oauthLog, contained, calls, configured>>

\* reset-password: revokeAllUserTokens
ResetPasswordRevoke(p) ==
    /\ pc[p] = "reset_revoke"
    /\ refreshTokens' = revokeAllUserTokens(loc[p].snap.userId)
    /\ Goto(p, "reset_issue", "resetPassword", loc[p].snap)
    /\ UNCHANGED <<users, oauthAccounts, verificationRequests, parentProfiles, now,
                   minted, oauthLog, contained, calls, configured>>

\* reset-password: generateTokenPair for the user, then the 200.  The slot keeps the
\* reset token of the request.
ResetPasswordIssue(p) ==
    /\ pc[p] = "reset_issue"
    /\ LET s == loc[p].snap
           pair == TokenPair(s.userId, s.email, s.role)
       IN  /\ refreshTokens' = generateTokenPair(s.userId, s.email, s.role)
           /\ minted' = minted \cup {[token |-> pair.refreshToken, from |-> NoId]}
           /\ pc' = [pc EXCEPT ![p] = "done"]
           /\ loc' = [loc EXCEPT ![p] =
                        [op |-> "resetPassword",
                         snap |-> [token |-> s.token],
                         resp |-> [status |-> 200, message |-> "Password reset successful.",
                                   userId |-> s.userId,
                                   refreshToken |-> pair.refreshToken]]]
    /\ UNCHANGED <<users, oauthAccounts, verificationRequests, parentProfiles, now,
                   oauthLog, contained, calls, configured>>

ForgotPasswordBodies == {[email |-> e] : e \in {"a@x.io", "A@x.io", "b@x.io", "c@x.io", NotAnEmail}}

\* the reset tokens forgot-password has mailed up to now, an access token of user 1
\* and a token of foreign make
ResetTokens ==
    {[generatePasswordResetToken(u.id, u.email) EXCEPT !.exp = at + ResetTtl] :
        u \in {x \in users : x.passwordHash # NoHash}, at \in 0..now}
      \cup {generateAccessToken(1, "a@x.io", "PARENT"), ForgedToken}

ResetPasswordBodies ==
    {[token |-> t, password |-> w] : t \in ResetTokens, w \in {"password-b"}}
      \cup {[token |-> NoToken, password |-> "password-b"]}
      \cup {[token |-> t, password |-> TooShort] : t \in ResetTokens}

NextReset ==
    \/ \E p \in Procs, body \in ForgotPasswordBodies, thrown \in BOOLEAN, mailed \in BOOLEAN :
           ForgotPassword(p, body, thrown, mailed)
    \/ \E p \in Procs, body \in ResetPasswordBodies : ResetPasswordStart(p, body)
    \/ \E p \in Procs : ResetPasswordUpdate(p)
    \/ \E p \in Procs : ResetPasswordRevoke(p)
    \/ \E p \in Procs : ResetPasswordIssue(p)
    \/ \E p \in Procs, body \in RefreshBodies : RefreshStart(p, body)
    \/ \E p \in Procs : RefreshRevoke(p)
    \/ \E p \in Procs : RefreshIssue(p)
    \/ \E p \in Procs : Finish(p)
    \/ \E u \in users : IssueTokens(u)
    \/ \E u \in users : SoftDelete(u)
    \/ Tick

SpecReset == InitToken /\ [][NextReset]_vars

\* ------------------------------- change-password among two password users
\* two registered users who both sign in with a password
PasswordUsers ==
    {[id |-> 1, email |-> "a@x.io", passwordHash |-> hash("password-a"), role |-> "PARENT",
      deleted |-> FALSE],
     [id |-> 2, email |-> "b@x.io", passwordHash |-> hash("password-b"), role |-> "CHILD",
      deleted |-> FALSE]}

InitRevokeAll ==
    /\ users = PasswordUsers
    /\ refreshTokens = {}
    /\ oauthAccounts = {}
    /\ verificationRequests =
         {[id |-> u.id, userId |-> u.id, role |-> u.role, status |-> "PENDING",
           idImageUrl |-> IF u.role = "PARENT" THEN "url" ELSE ""] : u \in PasswordUsers}
    /\ parentProfiles = {[userId |-> 1]}
    /\ now = 0
    /\ pc = [p \in Procs |-> "idle"]
    /\ loc = [p \in Procs |-> Idle]
    /\ minted = {}
    /\ oauthLog = {}
    /\ contained = {}
    /\ calls = 0
    /\ configured = Providers

SpecRevokeAll == InitRevokeAll /\ [][NextPassword]_vars

\* --------------- login with rehash next to change-password and reset-password
\* the user of InitLogin, whose hash was made under older parameters, logs in while
\* the password is changed or reset
NextRehash ==
    \/ \E p \in Procs, body \in LoginBodies : LoginStart(p, body)
    \/ \E p \in Procs : LoginRehash(p)
    \/ \E p \in Procs : LoginTokens(p)
    \/ \E p \in Procs, id \in {NoId} \cup {u.id : u \in users}, body \in ChangePasswordBodies :
           ChangePasswordStart(p, id, body)
    \/ \E p \in Procs : ChangePasswordUpdate(p)
    \/ \E p \in Procs : ChangePasswordRevoke(p)
    \/ \E p \in Procs, body \in ResetPasswordBodies : ResetPasswordStart(p, body)
    \/ \E p \in Procs : ResetPasswordUpdate(p)
    \/ \E p \in Procs : ResetPasswordRevoke(p)
    \/ \E p \in Procs : ResetPasswordIssue(p)
    \/ \E p \in Procs : Finish(p)

SpecRehash == InitLogin /\ [][NextRehash]_vars

\* ------------------------------------------------------------------ claims
\* T was minted by the service and a refresh of it has already returned a new pair
HasSuccessor(token) == token \in MintedTokens /\ \E m \in minted : m.from = token.tokenId

Revoked401 == Failure(401, "Refresh token has been revoked")

\* C1: two concurrent refreshTokens calls with the same Active token produce one
\* winner and one revoked-token failure: no token ever has two successor pairs.
C1_OneSuccessorPerToken ==
    \A a, b \in minted : (a.from # NoId /\ a.from = b.from) => a = b

\* C2 as stated: once refreshTokens(T) has succeeded, every refreshTokens(T) begun
\* later fails with the revoked-token error.
C2_LaterUseAlwaysReportsRevoked ==
    [][\A p \in Procs, body \in RefreshBodies :
          (RefreshStart(p, body) /\ HasSuccessor(body.refreshToken))
              => (pc'[p] = "done" /\ loc'[p].resp = Revoked401)]_vars

\* C2 amended: once refreshTokens(T) has succeeded, every refreshTokens(T) begun later
\* fails with 401, with the revoked-token error as long as T's own expiry has not
\* passed (afterwards signature verification rejects it as expired); and a call on a
\* minted token that is unexpired, unrevoked and whose user is not soft-deleted passes
\* the checks, revokes its record when the record is still there, and then returns a
\* new pair with 200.
C2_SingleUseInSequence ==
    [][/\ \A p \in Procs, body \in RefreshBodies :
            RefreshStart(p, body) =>
                LET tok == body.refreshToken IN
                /\ HasSuccessor(tok) =>
                      /\ pc'[p] = "done"
                      /\ loc'[p].resp.status = 401
                      /\ now < tok.exp => loc'[p].resp = Revoked401
                /\ ( /\ tok \in MintedTokens
                     /\ now < tok.exp
                     /\ \A r \in RecordOf(tok) : ~IsRevoked(r)
                     /\ \A u \in UserById(tok.userId) : ~u.deleted )
                      => pc'[p] = "refresh_revoke"
       /\ \A p \in Procs :
            (RefreshRevoke(p) /\ \E r \in refreshTokens : r.id = loc[p].snap.id)
                => pc'[p] = "refresh_issue"
       /\ \A p \in Procs :
            RefreshIssue(p) =>
                /\ pc'[p] = "done"
                /\ loc'[p].resp.status = 200
                /\ \E r \in refreshTokens' \ refreshTokens :
                      /\ r.tokenHash = hashToken(loc'[p].resp.refreshToken)
                      /\ r.revokedAt = NoTime
                      /\ r.expiresAt >= now'
      ]_vars

\* C2 witness: T was rotated to T', T' was rotated in turn, and a later use of a
\* rotated token was answered with the revoked-token error.
C2_Witness ==
    /\ \E m1, m2 \in minted : m1.from # NoId /\ m2.from = m1.token.tokenId
    /\ \E p \in Procs : pc[p] = "done" /\ loc[p].op = "refresh" /\ loc[p].resp = Revoked401

C4_PasswordChangeEndsSessions ==
    [][/\ \A p \in Procs :
            ChangePasswordRevoke(p) =>
                /\ loc'[p].resp.status = 200
                /\ \A t \in refreshTokens' :
                      t.userId = loc[p].snap.userId =>
                          (t.revokedAt # NoTime \/ t.expiresAt < now')
       /\ \A p \in Procs, body \in RefreshBodies :
            ( /\ RefreshStart(p, body)
              /\ body.refreshToken \in MintedTokens
              /\ body.refreshToken.tokenId \in contained )
                => (pc'[p] = "done" /\ loc'[p].resp.status = 401)
      ]_vars

\* C4 witness: two tokens were minted and never rotated, the password was changed,
\* and a refresh with one of them was then refused as revoked.
C4_Witness ==
    /\ Cardinality(contained) >= 2
    /\ \A m \in minted : m.from = NoId
    /\ \E p \in Procs : pc[p] = "done" /\ loc[p].op = "refresh" /\ loc[p].resp = Revoked401

\* C5: signup atomicity.  In every reachable state every User row has a
\* VerificationRequest and every ParentProfile row has its owning User, and a signup
\* transaction that fails (a statement of it fails, or the request is abandoned before
\* the commit) leaves the User, VerificationRequest and ParentProfile tables as they were.
C5_SignupAtomicity ==
    /\ [](/\ \A u \in users : \E v \in verificationRequests : v.userId = u.id
          /\ \A f \in parentProfiles : \E u \in users : u.id = f.userId)
    /\ [][\A p \in Procs, fault \in SignupFaults :
            (SignupTx(p, fault) /\ pc'[p] = "done")
                => /\ loc'[p].resp.status = 500
                   /\ UNCHANGED <<users, verificationRequests, parentProfiles>>]_vars

\* a signup transaction has failed, next to a committed PARENT signup
C5_Witness ==
    /\ \E p \in Procs :
         /\ pc[p] = "done" /\ loc[p].op = "signup"
         /\ loc[p].resp.step = "transaction" /\ loc[p].resp.status = 500
    /\ \E u \in users : \E f \in parentProfiles : f.userId = u.id

\* C6 (as stated): once the signup transaction has committed, a notification that
\* fails to send leaves the answer at 201.
C6_NotificationFailureStill201 ==
    \A p \in Procs :
        (/\ pc[p] = "done" /\ loc[p].op = "signup"
         /\ loc[p].resp.step \in {"welcome failed", "admin failed"})
            => loc[p].resp.status = 201

\* C7: signup fails fast in a fixed order.  A body that fails validation is answered
\* 400 with no store read; else a registered email is answered 409, also for a PARENT
\* without an image; else a PARENT without an image is answered 415; a failed upload is
\* answered 500.  In all four no hash is computed from the failing step on and no row
\* of any table is written.
C7_SignupFailsFast ==
    [][/\ \A p \in Procs, body \in SignupBodies :
            SignupStart(p, body)
                => /\ UNCHANGED store
                   /\ ~signupSchemaValid(body)
                        => /\ pc'[p] = "done" /\ loc'[p].resp.status = 400
                           /\ loc'[p].resp.reads = 0 /\ loc'[p].resp.hashes = 0
                   /\ (signupSchemaValid(body)
                         /\ \E u \in users : u.email = Lower(body.email))
                        => /\ pc'[p] = "done" /\ loc'[p].resp.status = 409
                           /\ loc'[p].resp.hashes = 0
                   /\ (/\ signupSchemaValid(body)
                       /\ ~\E u \in users : u.email = Lower(body.email)
                       /\ body.role = "PARENT" /\ ~body.file)
                        => /\ pc'[p] = "done" /\ loc'[p].resp.status = 415
                           /\ loc'[p].resp.hashes = 0
       /\ \A p \in Procs :
            SignupUpload(p, FALSE)
                => /\ UNCHANGED store
                   /\ pc'[p] = "done" /\ loc'[p].resp.status = 500
                   /\ loc'[p].resp.hashes = loc[p].snap.hashes]_vars

\* one signup answered 409 and another 415, each without a hash
C7_Witness ==
    \E p, q \in Procs :
        /\ pc[p] = "done" /\ loc[p].op = "signup" /\ loc[p].resp.status = 409
        /\ loc[p].resp.hashes = 0
        /\ pc[q] = "done" /\ loc[q].op = "signup" /\ loc[q].resp.status = 415
        /\ loc[q].resp.hashes = 0

\* C8: the email slot is permanent and unique.  No two User rows share an email,
\* soft-deleted rows counted, and a valid signup for an email that a soft-deleted
\* user holds is answered 409 and creates no User.
C8_EmailSlotPermanent ==
    /\ [](\A u, v \in users : u.email = v.email => u = v)
    /\ [][\A p \in Procs, body \in SignupBodies :
            (/\ SignupStart(p, body)
             /\ signupSchemaValid(body)
             /\ \E u \in users : u.deleted /\ u.email = Lower(body.email))
                => /\ pc'[p] = "done" /\ loc'[p].resp.status = 409
                   /\ users' = users]_vars

\* a signup was answered 409 while the only holder of an email is soft-deleted
C8_Witness ==
    /\ \E p \in Procs :
         pc[p] = "done" /\ loc[p].op = "signup" /\ loc[p].resp.status = 409
    /\ users # {}
    /\ \A u \in users : u.deleted

\* C9: any two successful OAuth logins with the same (provider, sub) resolve to the
\* same user id, whatever happens between them.
C9_SameSubSameUser ==
    \A a, b \in oauthLog : (a[1] = b[1] /\ a[2] = b[2]) => a[3] = b[3]

\* two answered logins of one (provider, sub): the one that created the user and the
\* one that found the link
C9_Witness ==
    \E p, q \in Procs :
        /\ pc[p] = "done" /\ loc[p].op = "oauth" /\ loc[p].resp.status = 200
        /\ loc[p].resp.path = "create"
        /\ pc[q] = "done" /\ loc[q].op = "oauth" /\ loc[q].resp.status = 200
        /\ loc[q].resp.path = "existing"
        /\ loc[p].resp.userId = loc[q].resp.userId
        /\ Cardinality(oauthLog) = 1

\* C10: the merge path.  A login whose (provider, sub) has no link and whose verified
\* email is the email of a User with a password goes on to link; the link step adds
\* exactly one OAuthAccount row, pointing at that user, and writes no User and no
\* VerificationRequest; the answer is 200 with isNewUser = false for that user, and
\* no step of the path touches the User rows (so passwordHash stays).
C10_MergeLinksExistingUser ==
    [][\A p \in Procs :
        /\ (/\ OAuthFindUser(p)
            /\ \E u \in users : u.email = loc[p].snap.email /\ u.passwordHash # NoHash)
              => /\ pc'[p] = "oauth_link"
                 /\ \E u \in users : u.email = loc[p].snap.email
                                       /\ loc'[p].snap.userId = u.id
                 /\ UNCHANGED store
        /\ \A error \in StoreErrors :
             (/\ OAuthLink(p, error)
              /\ ~\E a \in oauthAccounts :
                    a.provider = loc[p].snap.provider /\ a.providerId = loc[p].snap.sub)
              => /\ oauthAccounts' = oauthAccounts \cup
                        {[provider |-> loc[p].snap.provider,
                          providerId |-> loc[p].snap.sub,
                          userId |-> loc[p].snap.userId]}
                 /\ Cardinality(oauthAccounts') = Cardinality(oauthAccounts) + 1
                 /\ UNCHANGED <<users, verificationRequests>>
                 /\ pc'[p] = "oauth_tokens" /\ loc'[p].snap.path = "merge"
        /\ (OAuthTokens(p) /\ loc[p].snap.path = "merge")
              => /\ loc'[p].resp.status = 200
                 /\ loc'[p].resp.isNewUser = FALSE
                 /\ loc'[p].resp.userId = loc[p].snap.userId
                 /\ UNCHANGED <<users, verificationRequests, oauthAccounts>>]_vars

\* a login answered through the merge path for a user who has a password, with the
\* one link row it created
C10_Witness ==
    \E p \in Procs :
        /\ pc[p] = "done" /\ loc[p].op = "oauth" /\ loc[p].resp.status = 200
        /\ loc[p].resp.path = "merge" /\ ~loc[p].resp.isNewUser
        /\ \E u \in users : u.id = loc[p].resp.userId /\ u.passwordHash # NoHash
        /\ Cardinality({a \in oauthAccounts : a.userId = loc[p].resp.userId}) = 1
        /\ Cardinality(users) = 1
        /\ Cardinality(verificationRequests) = 1

\* C11 (as stated): POST /auth/oauth returns isNewUser = true exactly when the call
\* created a new User row: every 200 carries isNewUser = true on the new-account path
\* and false on the other two, and a call that has created its User row goes on to
\* that answer; the welcome mail is sent on the new-account path only.
C11_IsNewUserExactlyWhenCreated ==
    [][\A p \in Procs :
        /\ OAuthTokens(p)
             => /\ loc'[p].resp.isNewUser = (loc[p].snap.path = "create")
                /\ users' = users
        /\ \A error \in StoreErrors : OAuthLink(p, error) => users' = users
        /\ \A fault \in OAuthFaults, error \in StoreErrors, mailed \in BOOLEAN :
             (OAuthCreate(p, fault, error, mailed) /\ users' # users)
                => /\ pc'[p] = "oauth_tokens"
                   /\ loc'[p].snap.path = "create"]_vars

\* C12: at most one OAuthAccount row per (provider, providerId), and each row
\* references exactly one User, in every reachable state.
C12_OneLinkPerSubject ==
    /\ \A a, b \in oauthAccounts :
         (a.provider = b.provider /\ a.providerId = b.providerId) => a = b
    /\ \A a \in oauthAccounts : Cardinality({u \in users : u.id = a.userId}) = 1

\* two first logins of one (provider, sub) ran side by side: one created the link,
\* the other's create was refused
C12_Witness ==
    /\ Cardinality(oauthAccounts) = 1
    /\ \E p, q \in Procs :
         /\ pc[p] = "done" /\ loc[p].op = "oauth" /\ loc[p].resp.status = 200
         /\ loc[p].resp.path \in {"create", "merge"}
         /\ pc[q] = "done" /\ loc[q].op = "oauth" /\ loc[q].resp.status \in {401, 500}
         /\ loc[q].resp.message \in {"Invalid prisma invocation", "OAuth authentication failed"}

\* C14 (as stated): refreshTokens reports the cause by the state of the record: absent
\* -> invalid, revoked -> revoked (also when past expiresAt), past expiresAt ->
\* expired, owner soft-deleted -> user deleted; POST /auth/refresh answers 401.
C14_CauseByRecordState ==
    [][\A p \in Procs, body \in RefreshBodies :
          (RefreshStart(p, body) /\ RefreshBodyValid(body))
              => LET found == RecordOf(body.refreshToken) IN
                 /\ (\E r \in found : IsRevoked(r))
                      => loc'[p].resp = Revoked401
                 /\ (\E r \in found : ~IsRevoked(r) /\ IsExpired(r))
                      => loc'[p].resp = Failure(401, "Refresh token has expired")]_vars

\* C14 amended: a token that fails signature or expiry verification is answered 401
\* with the verification error before any record is read; for a token that verifies
\* the causes are tested in this order: record absent -> invalid; revoked -> revoked;
\* past expiresAt -> expired; owner soft-deleted -> user deleted; each answered 401.
\* A token past its expiry never verifies, so a revoked and expired token reports the
\* verification error.
C14_CheckOrder ==
    [][\A p \in Procs, body \in RefreshBodies :
          (RefreshStart(p, body) /\ RefreshBodyValid(body))
              => LET tok == body.refreshToken
                     v == JwtVerify(tok, RefreshSecret)
                     found == RecordOf(tok)
                     deleted == \E r \in found, u \in users : u.id = r.userId /\ u.deleted
                 IN
                 /\ v # "ok" => loc'[p].resp = Failure(401, v)
                 /\ (v = "ok" /\ found = {})
                      => loc'[p].resp = Failure(401, "Invalid refresh token")
                 /\ (v = "ok" /\ \E r \in found : IsRevoked(r))
                      => loc'[p].resp = Revoked401
                 /\ (v = "ok" /\ \E r \in found : ~IsRevoked(r) /\ IsExpired(r))
                      => loc'[p].resp = Failure(401, "Refresh token has expired")
                 /\ (v = "ok" /\ deleted /\ \E r \in found : ~IsRevoked(r) /\ ~IsExpired(r))
                      => loc'[p].resp = Failure(401, "User account has been deleted")
                 /\ (\E r \in found : IsExpired(r)) => v = "jwt expired"]_vars

\* a refresh of a verified, unrevoked, unexpired token was refused because its owner
\* is soft-deleted
C14_Witness ==
    \E p \in Procs :
        /\ pc[p] = "done" /\ loc[p].op = "refresh"
        /\ loc[p].resp = Failure(401, "User account has been deleted")
        /\ \E u \in users : u.deleted
        /\ \E r \in refreshTokens : IsActive(r)

\* C18 (as stated): logout always answers 200 with the same message, and after a
\* logout that revoked an Active token T every refreshTokens(T) fails with the
\* revoked-token error.
C18_LogoutThenRevokedError ==
    [][/\ \A p \in Procs, body \in RefreshBodies, thrown \in BOOLEAN :
            Logout(p, body, thrown)
                => loc'[p].resp = [status |-> 200, message |-> "Logged out successfully"]
       /\ \A p, q \in Procs :
            (/\ pc[q] = "done" /\ loc[q].op = "logout" /\ loc[q].snap.revokedActive
             /\ RefreshStart(p, [refreshToken |-> loc[q].snap.token]))
                => (pc'[p] = "done" /\ loc'[p].resp = Revoked401)]_vars

\* C18 amended: logout answers 200 with the same message whether the token is valid,
\* absent, unknown, already revoked, or its revocation throws; after a logout that
\* revoked an Active token T every refreshTokens(T) fails with 401, with the
\* revoked-token error as long as T's own expiry has not passed (afterwards
\* verification rejects it as expired).
C18_LogoutEndsToken ==
    [][/\ \A p \in Procs, body \in RefreshBodies, thrown \in BOOLEAN :
            Logout(p, body, thrown)
                => /\ pc'[p] = "done"
                   /\ loc'[p].resp = [status |-> 200, message |-> "Logged out successfully"]
       /\ \A p, q \in Procs :
            (/\ pc[q] = "done" /\ loc[q].op = "logout" /\ loc[q].snap.revokedActive
             /\ RefreshStart(p, [refreshToken |-> loc[q].snap.token]))
                => /\ pc'[p] = "done"
                   /\ loc'[p].resp.status = 401
                   /\ now < loc[q].snap.token.exp => loc'[p].resp = Revoked401]_vars

\* a logout revoked an Active token and the refresh of that token was refused as revoked
C18_Witness ==
    \E p, q \in Procs :
        /\ pc[q] = "done" /\ loc[q].op = "logout" /\ loc[q].snap.revokedActive
        /\ pc[p] = "done" /\ loc[p].op = "refresh" /\ loc[p].resp = Revoked401
        /\ \A m \in minted : m.from = NoId

\* C19 (as stated): revokeRefreshToken is idempotent: the call creates and deletes no
\* record, and calling it on a token whose record is already revoked leaves the store
\* as the first call left it.
C19_RevokeTwiceIsRevokeOnce ==
    [][\A p \in Procs, body \in RefreshBodies :
          Logout(p, body, FALSE)
              => /\ {t.id : t \in refreshTokens'} = {t.id : t \in refreshTokens}
                 /\ (\A r \in RecordOf(body.refreshToken) : IsRevoked(r))
                      => refreshTokens' = refreshTokens]_vars

\* C13: the OAuth new-account path writes all or nothing: either no User, OAuthAccount
\* or VerificationRequest row, or exactly one User with role PARENT and no
\* passwordHash, one OAuthAccount linking (provider, sub) to it and one PENDING
\* VerificationRequest of it.  No step of a login or an OAuth login gives a
\* passwordHash to a user that has none, and a password login for the email of such
\* a user is answered 401.
C13_OAuthOnlyAccount ==
    [][/\ \A p \in Procs, fault \in OAuthFaults, error \in StoreErrors, mailed \in BOOLEAN :
            OAuthCreate(p, fault, error, mailed)
                => \/ UNCHANGED <<users, oauthAccounts, verificationRequests>>
                   \/ \E u \in users' \ users :
                        /\ users' = users \cup {u}
                        /\ u.role = "PARENT" /\ u.passwordHash = NoHash
                        /\ u.email = loc[p].snap.email /\ ~u.deleted
                        /\ oauthAccounts' = oauthAccounts \cup
                               {[provider |-> loc[p].snap.provider,
                                 providerId |-> loc[p].snap.sub, userId |-> u.id]}
                        /\ Cardinality(oauthAccounts') = Cardinality(oauthAccounts) + 1
                        /\ \E v \in verificationRequests' \ verificationRequests :
                             /\ verificationRequests' = verificationRequests \cup {v}
                             /\ v.userId = u.id /\ v.status = "PENDING"
       /\ \A u \in users :
            u.passwordHash = NoHash
                => \E v \in users' : v.id = u.id /\ v.passwordHash = NoHash
       /\ \A p \in Procs, body \in LoginBodies :
            (/\ LoginStart(p, body)
             /\ loginSchemaValid(body)
             /\ \E u \in users : u.email = Lower(body.email) /\ u.passwordHash = NoHash)
                => (pc'[p] = "done" /\ loc'[p].resp.status = 401)]_vars

\* the new-account path made an OAuth-only user, a later login of the same identity
\* found the link, and a password login was answered 401
C13_Witness ==
    /\ \E u \in users :
         /\ u.passwordHash = NoHash /\ u.role = "PARENT"
         /\ \E a \in oauthAccounts : a.userId = u.id
         /\ \E v \in verificationRequests : v.userId = u.id /\ v.status = "PENDING"
         /\ \E p \in Procs :
              /\ pc[p] = "done" /\ loc[p].op = "oauth" /\ loc[p].resp.status = 200
              /\ loc[p].resp.path = "existing" /\ loc[p].resp.userId = u.id
    /\ \E q \in Procs : pc[q] = "done" /\ loc[q].op = "login" /\ loc[q].resp = InvalidLogin

\* C20: login never reveals which check failed.  For a well-formed request, an unknown
\* email, a soft-deleted user, a user without passwordHash and a wrong password all
\* get the same answer (401, code UNAUTHORIZED, one message), and the call writes no
\* RefreshToken record and leaves every stored passwordHash as it was.
C20_LoginFailuresIdentical ==
    [][\A p \in Procs, body \in LoginBodies :
          (/\ LoginStart(p, body)
           /\ loginSchemaValid(body)
           /\ \/ ~\E u \in users : u.email = Lower(body.email)
              \/ \E u \in users :
                   /\ u.email = Lower(body.email)
                   /\ \/ u.deleted
                      \/ u.passwordHash = NoHash
                      \/ u.passwordHash.pw # body.password)
              => /\ pc'[p] = "done"
                 /\ loc'[p].resp = [status |-> 401, message |-> "Invalid email or password"]
                 /\ ErrorCode(loc'[p].resp.status) = "UNAUTHORIZED"
                 /\ refreshTokens' = refreshTokens
                 /\ users' = users]_vars

\* two logins answered with the one 401 while one user is soft-deleted and another
\* has no passwordHash
C20_Witness ==
    /\ \E p, q \in Procs :
         /\ p # q
         /\ pc[p] = "done" /\ loc[p].op = "login" /\ loc[p].resp = InvalidLogin
         /\ pc[q] = "done" /\ loc[q].op = "login" /\ loc[q].resp = InvalidLogin
    /\ \E u \in users : u.deleted /\ u.passwordHash # NoHash
    /\ \E u \in users : ~u.deleted /\ u.passwordHash = NoHash
    /\ refreshTokens = {}

\* C15: requireAuth calls next exactly when the request carries a Bearer header
\* whose token verifies as an access token and a user with the token's id exists
\* and is not soft-deleted; the identity it attaches is the id, email and role of
\* that user's row, not the token's claims. In every other case it answers 401,
\* does not call next and attaches nothing. It changes nothing in the store.
C15_RequireAuthPassesExactlyValid ==
    [][/\ \A p \in Procs, header \in AuthHeaders :
            RequireAuthStart(p, header) =>
              /\ UNCHANGED store
              /\ loc'[p].resp.status \in {0, 401}
              /\ IF header.scheme = "Bearer" /\ verifyAccessToken(header.token) = "ok"
                 THEN pc'[p] = "auth_lookup" /\ loc'[p].resp.status = 0
                 ELSE /\ pc'[p] = "done"
                      /\ loc'[p].resp.status = 401
                      /\ loc'[p].resp.next = 0
                      /\ loc'[p].resp.user = NoIdentity
       /\ \A p \in Procs, thrown \in BOOLEAN :
            RequireAuthLookup(p, thrown) =>
              /\ UNCHANGED store
              /\ pc'[p] = "done"
              /\ LET rows == {u \in users : u.id = loc[p].snap.userId /\ ~u.deleted} IN
                   IF ~thrown /\ rows # {}
                   THEN /\ loc'[p].resp.status = 0
                        /\ loc'[p].resp.next = 1
                        /\ \E u \in rows : loc'[p].resp.user =
                              [id |-> u.id, email |-> u.email, role |-> u.role]
                   ELSE /\ loc'[p].resp.status = 401
                        /\ loc'[p].resp.next = 0
                        /\ loc'[p].resp.user = NoIdentity]_vars

\* one request passed requireAuth with a row's identity while another, whose token
\* verified, was refused because its user is soft-deleted or gone
C15_Witness ==
    \E p, q \in Procs :
        /\ pc[p] = "done" /\ loc[p].op = "requireAuth"
        /\ loc[p].resp.next = 1
        /\ \E u \in users : ~u.deleted /\ loc[p].resp.user.id = u.id
                            /\ loc[p].resp.user.role = u.role
        /\ pc[q] = "done" /\ loc[q].op = "requireAuth"
        /\ loc[q].resp.status = 401
        /\ loc[q].resp.message = "User not found or deleted"

\* C16: requireRole answers 401 when no identity is attached, 403 when the
\* identity's role is not among the allowed roles, and calls next otherwise; it
\* changes neither the store nor the attached identity.
C16_RequireRoleByIdentityOnly ==
    [][\A p \in Procs, allowed \in AllowedRoles :
          RequireRole(p, allowed) =>
            /\ UNCHANGED <<store, now>>
            /\ loc'[p].resp.user = loc[p].resp.user
            /\ LET identity == loc[p].resp.user IN
                 /\ identity = NoIdentity =>
                      loc'[p].resp.status = 401 /\ loc'[p].resp.next = 0
                 /\ identity # NoIdentity /\ identity.role \notin allowed =>
                      loc'[p].resp.status = 403 /\ loc'[p].resp.next = 0
                 /\ identity # NoIdentity /\ identity.role \in allowed =>
                      loc'[p].resp.status = 0 /\ loc'[p].resp.next = 1]_vars

\* requireRole refused one authenticated request with 403 and let another pass
C16_Witness ==
    \E p, q \in Procs :
        /\ pc[p] = "done" /\ loc[p].op = "requireRole"
        /\ loc[p].resp.status = 403 /\ loc[p].resp.user # NoIdentity
        /\ pc[q] = "done" /\ loc[q].op = "requireRole"
        /\ loc[q].resp.next = 1 /\ loc[q].resp.user # NoIdentity

\* C17: optionalAuth calls next exactly once and never sends a response; it
\* attaches an identity exactly in the cases where requireAuth would pass the same
\* request on the same store state, and then the same identity.
C17_OptionalAuthAlwaysNext ==
    [][/\ \A p \in Procs, header \in AuthHeaders :
            OptionalAuthStart(p, header) =>
              /\ UNCHANGED store
              /\ loc'[p].resp.status = 0
              /\ IF RequireAuthCheck(header) = "ok"
                 THEN pc'[p] = "optional_lookup"
                      /\ loc'[p].snap.userId = header.token.userId
                 ELSE /\ pc'[p] = "done"
                      /\ loc'[p].resp.next = 1
                      /\ loc'[p].resp.user = NoIdentity
       /\ \A p \in Procs, thrown \in BOOLEAN :
            OptionalAuthLookup(p, thrown) =>
              /\ UNCHANGED store
              /\ pc'[p] = "done"
              /\ loc'[p].resp.status = 0
              /\ loc'[p].resp.next = 1
              /\ LET rows == ActiveUserById(loc[p].snap.userId) IN
                   loc'[p].resp.user =
                     IF ~thrown /\ rows # {}
                     THEN AttachedIdentity(CHOOSE u \in rows : TRUE, loc[p].snap)
                     ELSE NoIdentity]_vars

\* optionalAuth passed one request on with an identity and another without one
C17_Witness ==
    \E p, q \in Procs :
        /\ pc[p] = "done" /\ loc[p].op = "optionalAuth"
        /\ loc[p].resp.next = 1 /\ loc[p].resp.user # NoIdentity
        /\ pc[q] = "done" /\ loc[q].op = "optionalAuth"
        /\ loc[q].resp.next = 1 /\ loc[q].resp.user = NoIdentity

\* C22 (as stated): cleanupExpiredTokens is pure garbage collection: it deletes
\* exactly the records past expiresAt or revoked for longer than the grace, never
\* deletes or alters an Active record, and, run at any point, also between the steps
\* of a refreshTokens call, it never makes a call that would succeed fail: the record
\* a call has checked and is about to rotate is still there after the cleanup.
C22_CleanupNeverChangesRefresh ==
    [][Cleanup =>
         /\ refreshTokens' =
              {t \in refreshTokens :
                  ~(t.expiresAt < now \/ (IsRevoked(t) /\ t.revokedAt < now - RevokedGrace))}
         /\ \A t \in refreshTokens : IsActive(t) => t \in refreshTokens'
         /\ \A p \in Procs :
              pc[p] = "refresh_revoke" => \E t \in refreshTokens' : t.id = loc[p].snap.id]_vars

\* C23: every RefreshToken record holds the digest of a refresh token that was
\* issued, never the token itself; its id and userId are the tokenId and userId
\* embedded in that token; and each issuance writes exactly one record, unrevoked.
C23_RecordsHoldDigests ==
    /\ [](\A t \in refreshTokens :
            \E m \in minted :
                /\ t.tokenHash = hashToken(m.token)
                /\ t.tokenHash # m.token
                /\ t.id = m.token.tokenId
                /\ t.userId = m.token.userId)
    /\ [][minted' # minted =>
            \E m \in minted' \ minted :
                /\ minted' = minted \cup {m}
                /\ \E t \in refreshTokens' \ refreshTokens :
                     /\ refreshTokens' \ refreshTokens = {t}
                     /\ t.tokenHash = hashToken(m.token)
                     /\ t.revokedAt = NoTime
                     /\ t.id \notin {r.id : r \in refreshTokens}]_vars

\* two tokens were issued, one by a login and one by a rotation, and both records
\* are in the store, the rotated one revoked
C23_Witness ==
    /\ \E m \in minted : m.from # NoId /\ RecordOf(m.token) # {}
    /\ \E m \in minted : m.from = NoId /\ \E t \in RecordOf(m.token) : IsRevoked(t)

\* C30: a login whose password verifies against a stored hash made with other
\* parameters than the current ones replaces that hash by one that verifies the same
\* password and needs no rehash, and then succeeds; a login that is refused changes
\* no passwordHash.
C30_RehashOnLogin ==
    [][/\ \A p \in Procs, body \in LoginBodies :
            LoginStart(p, body) =>
              /\ users' = users
              /\ pc'[p] = "done" => loc'[p].resp.status \in {400, 401}
              /\ \A u \in users :
                   /\ IsEmail(body.email) /\ u.email = Lower(body.email) /\ ~u.deleted
                   /\ u.passwordHash # NoHash /\ u.passwordHash.pw = body.password
                   /\ u.passwordHash.cost # CurrentCost
                   => /\ pc'[p] = "login_rehash"
                      /\ loc'[p].snap.userId = u.id
                      /\ verify(loc'[p].snap.newHash, body.password)
                      /\ loc'[p].snap.newHash.cost = CurrentCost
       /\ \A p \in Procs :
            LoginRehash(p) =>
              /\ pc'[p] = "login_tokens"
              /\ \A u \in users' :
                   IF u.id = loc[p].snap.userId
                   THEN u.passwordHash = loc[p].snap.newHash
                   ELSE u \in users
       /\ \A p \in Procs :
            LoginTokens(p) => users' = users /\ loc'[p].resp.status = 200]_vars

\* the user who signed up under the old parameters has logged in: the login was
\* answered 200 and the stored hash is one for the same password under the current
\* parameters
C30_Witness ==
    \E p \in Procs :
        /\ pc[p] = "done" /\ loc[p].op = "login" /\ loc[p].resp.status = 200
        /\ \E u \in users :
             /\ u.id = loc[p].resp.userId
             /\ u.passwordHash = [pw |-> "password-a", cost |-> CurrentCost]

C25_SignupCreatesOneRequest ==
    [][/\ \A p \in Procs, fault \in SignupFaults :
            SignupTx(p, fault) /\ pc'[p] = "signup_tokens" =>
              LET s == loc[p].snap IN
              \E u \in users' \ users :
                /\ users' = users \cup {u}
                /\ u.role = s.role /\ u.id = loc'[p].snap.userId
                /\ \E r \in verificationRequests' \ verificationRequests :
                     /\ verificationRequests' = verificationRequests \cup {r}
                     /\ r.userId = u.id /\ r.status = "PENDING" /\ r.role = s.role
                     /\ r.idImageUrl = IF s.file THEN "url" ELSE ""
                /\ parentProfiles' \ parentProfiles =
                     IF s.role = "PARENT" THEN {[userId |-> u.id]} ELSE {}
                /\ parentProfiles \subseteq parentProfiles'
                /\ \A x \in parentProfiles : x.userId # u.id
       /\ \A p \in Procs, mail \in {"sent", "welcome failed", "admin failed"} :
            SignupTokens(p, mail) /\ loc'[p].resp.status = 201 =>
              /\ loc'[p].resp.verificationStatus = "PENDING"
              /\ \E u \in users' :
                   /\ u.id = loc'[p].resp.userId
                   /\ Cardinality({r \in verificationRequests' : r.userId = u.id}) = 1
                   /\ \A r \in verificationRequests' :
                        r.userId = u.id => r.status = "PENDING" /\ r.role = u.role
                   /\ (u.role = "PARENT") = (\E x \in parentProfiles' : x.userId = u.id)]_vars

\* a PARENT signed up with 201: the user has its request, with the URL of the
\* uploaded image, and its ParentProfile
C25_Witness ==
    \E p \in Procs :
        /\ pc[p] = "done" /\ loc[p].op = "signup" /\ loc[p].resp.status = 201
        /\ \E u \in users :
             /\ u.id = loc[p].resp.userId /\ u.role = "PARENT"
             /\ \E r \in verificationRequests : r.userId = u.id /\ r.idImageUrl = "url"
             /\ \E x \in parentProfiles : x.userId = u.id

\* C26: the failures of OAuth verification are told apart and write nothing: a
\* provider whose client id is not configured is answered 500, a token the provider
\* rejects 401, and a verified payload without an email 400; in each case the
\* handler ends there and no row of any table is written.
C26_OAuthFailuresDistinct ==
    [][\A p \in Procs, body \in OAuthBodies :
          OAuthStart(p, body) =>
            /\ UNCHANGED <<store, minted, oauthLog>>
            /\ body.idToken.kind # "empty" /\ body.provider \notin configured =>
                 pc'[p] = "done" /\ loc'[p].resp.status = 500
            /\ body.provider \in configured /\ body.idToken.kind = "bad" =>
                 pc'[p] = "done" /\ loc'[p].resp.status = 401
            /\ /\ body.provider \in configured /\ body.idToken.kind = "good"
               /\ body.idToken.email = ""
               => pc'[p] = "done" /\ loc'[p].resp.status = 400
            /\ /\ body.provider \in configured /\ body.idToken.kind = "good"
               /\ body.idToken.email # ""
               => pc'[p] # "done"]_vars

\* with no Google client id configured one OAuth request was answered 500 and
\* another, with a token Apple rejects, 401; the store is still empty
C26_Witness ==
    /\ configured = {"apple"}
    /\ users = {} /\ oauthAccounts = {} /\ verificationRequests = {} /\ refreshTokens = {}
    /\ \E p, q \in Procs :
         /\ pc[p] = "done" /\ loc[p].op = "oauth" /\ loc[p].resp.status = 500
         /\ pc[q] = "done" /\ loc[q].op = "oauth" /\ loc[q].resp.status = 401
         /\ loc[q].resp.message = "Invalid Apple token"

\* C29 (as stated): every stored User email is in lowercase form, and no two User
\* rows have emails that differ only in letter case.
C29_EmailsLowercase ==
    /\ \A u \in users : u.email = Lower(u.email)
    /\ \A u, v \in users : Lower(u.email) = Lower(v.email) => u = v

\* C28 (as stated): every 200 of login and oauth carries a refresh token whose record
\* is Active and owned by the responding user at response time, so that a
\* refreshTokens call with it right then passes all checks.
C28_IssuedTokenRefreshes ==
    [][\A p \in Procs :
          (LoginTokens(p) \/ OAuthTokens(p)) /\ loc'[p].resp.status = 200 =>
            \E m \in minted' \ minted :
              /\ \E t \in refreshTokens' :
                   /\ t.tokenHash = hashToken(m.token)
                   /\ t.userId = loc'[p].resp.userId
                   /\ t.revokedAt = NoTime /\ ~(t.expiresAt < now')
              /\ (RefreshCheck(m.token) = "ok")']_vars

\* C21: for every well-formed request forgot-password answers the same 200 with the
\* same message, whether the email belongs to no user, a soft-deleted user, an
\* OAuth-only user or a user with a password, whether the lookup or the mail send
\* fails or not; and it changes nothing in the store.
C21_ForgotPasswordSameAnswer ==
    [][\A p \in Procs, body \in ForgotPasswordBodies, thrown \in BOOLEAN, mailed \in BOOLEAN :
          ForgotPassword(p, body, thrown, mailed) /\ IsEmail(body.email) =>
            /\ UNCHANGED <<store, minted>>
            /\ pc'[p] = "done"
            /\ loc'[p].resp =
                 [status |-> 200,
                  message |-> "If an account exists with this email, a password reset link has been sent."]]_vars

\* two forgot-password requests were answered alike: one for an email the lookup did
\* not find, one for a user with a password whose reset mail could not be sent
C21_Witness ==
    \E p, q \in Procs :
        /\ pc[p] = "done" /\ loc[p].op = "forgotPassword" /\ ~loc[p].snap.found
        /\ pc[q] = "done" /\ loc[q].op = "forgotPassword"
        /\ loc[q].snap.resetToken # NoToken /\ ~loc[q].snap.mailed
        /\ loc[p].resp = loc[q].resp /\ loc[p].resp.status = 200

\* C24 (as stated): when reset-password answers 200 for user U, the refresh token it
\* returns is the only Active RefreshToken record of U; a reset token that does not
\* verify is answered 400 and one whose user is missing or soft-deleted 404, both
\* without a change to any passwordHash or token record.
C24_ResetLeavesOneSession ==
    [][/\ \A p \in Procs :
            ResetPasswordIssue(p) =>
              \A t \in refreshTokens' :
                  /\ t.userId = loc'[p].resp.userId
                  /\ t.revokedAt = NoTime /\ ~(t.expiresAt < now')
                  => t.tokenHash = hashToken(loc'[p].resp.refreshToken)
       /\ \A p \in Procs, body \in ResetPasswordBodies :
            ResetPasswordStart(p, body) =>
              /\ UNCHANGED <<users, refreshTokens>>
              /\ body.token # NoToken /\ body.password # TooShort
                 /\ verifyPasswordResetToken(body.token) # "ok"
                 => loc'[p].resp.status = 400
              /\ /\ body.token # NoToken /\ body.password # TooShort
                 /\ verifyPasswordResetToken(body.token) = "ok"
                 /\ body.token.typ = "password-reset"
                 /\ ~\E u \in users : u.id = body.token.userId /\ ~u.deleted
                 => loc'[p].resp.status = 404]_vars

\* C31: change-password with a wrong current password answers 401, and for a user
\* without a passwordHash it fails (404); in both cases the handler ends there and
\* no passwordHash and no RefreshToken record has changed.
C31_WrongCurrentPasswordChangesNothing ==
    [][\A p \in Procs, id \in {NoId} \cup {u.id : u \in users}, body \in ChangePasswordBodies :
          ChangePasswordStart(p, id, body) =>
            /\ UNCHANGED <<users, refreshTokens>>
            /\ \A u \in users :
                 u.id = id /\ body.currentPassword # "" /\ body.newPassword # TooShort =>
                   /\ u.passwordHash = NoHash =>
                        pc'[p] = "done" /\ loc'[p].resp.status = 404
                   /\ u.passwordHash # NoHash /\ u.passwordHash.pw # body.currentPassword =>
                        pc'[p] = "done" /\ loc'[p].resp.status = 401]_vars

\* with a session of the user in the store, one change-password was refused for a
\* wrong current password and one for the user who has no password
C31_Witness ==
    /\ \E t \in refreshTokens : IsActive(t)
    /\ users = SeedUsers
    /\ \E p, q \in Procs :
         /\ pc[p] = "done" /\ loc[p].op = "changePassword"
         /\ loc[p].resp = Failure(401, "Current password is incorrect")
         /\ pc[q] = "done" /\ loc[q].op = "changePassword"
         /\ loc[q].resp.status = 404

C39_RevokeAllFrame ==
    [][\A p \in Procs :
          ChangePasswordRevoke(p) =>
            LET U == loc[p].snap.userId
            IN  /\ {t.id : t \in refreshTokens'} = {t.id : t \in refreshTokens}
                /\ Cardinality(refreshTokens') = Cardinality(refreshTokens)
                /\ \A t \in refreshTokens :
                     (t.userId # U \/ t.revokedAt # NoTime) => t \in refreshTokens'
                /\ \A t \in refreshTokens :
                     (t.userId = U /\ t.revokedAt = NoTime) =>
                        [t EXCEPT !.revokedAt = now] \in refreshTokens']_vars

\* a change-password has run revokeAllUserTokens for a user who had a record revoked
\* earlier and an unrevoked one, while another user holds an Active record
C39_Witness ==
    \E p \in Procs :
        /\ pc[p] = "done" /\ loc[p].op = "changePassword" /\ loc[p].resp.status = 200
        /\ \E r1, r2, o \in refreshTokens :
             /\ r1.userId = r2.userId /\ o.userId # r1.userId
             /\ r1.revokedAt # NoTime /\ r1.revokedAt < r2.revokedAt
             /\ r2.revokedAt = now
             /\ IsActive(o)

C33_NoActiveSuccessorOfOldSession ==
    \A m \in minted :
        m.from \in contained =>
            \A t \in refreshTokens : t.id = m.token.tokenId => ~IsActive(t)

\* C37: a password-reset token changes the password at most once: after
\* reset-password has answered 200 for reset token R, a reset-password that presents
\* the same R is refused at its checks, so it neither writes the passwordHash nor
\* issues a session.
C37_ResetTokenUsedOnce ==
    [][\A q \in Procs, body \in ResetPasswordBodies :
          ( /\ ResetPasswordStart(q, body)
            /\ \E p \in Procs :
                 /\ pc[p] = "done" /\ loc[p].op = "resetPassword"
                 /\ loc[p].resp.status = 200
                 /\ loc[p].snap.token = body.token )
            => (pc'[q] = "done" /\ loc'[q].resp.status >= 400)]_vars

\* C36: token kinds are not interchangeable: requireAuth lets a request pass its
\* token check only when the bearer token was minted by generateAccessToken (a refresh
\* token or a password-reset token as bearer is answered 401), refreshTokens passes
\* its checks only for tokens minted by generateRefreshToken, and reset-password only
\* for tokens minted by generatePasswordResetToken.
C36_TokenKindsNotInterchangeable ==
    [][/\ \A p \in Procs, header \in AuthHeaders :
            RequireAuthStart(p, header) /\ header.token \notin IssuedAccessTokens =>
              (pc'[p] = "done" /\ loc'[p].resp.status = 401)
       /\ \A p \in Procs, body \in RefreshBodies :
            RefreshStart(p, body) /\ body.refreshToken \notin MintedTokens =>
              (pc'[p] = "done" /\ loc'[p].resp.status >= 400)
       /\ \A p \in Procs, body \in ResetPasswordBodies :
            ResetPasswordStart(p, body) /\ body.token.typ # "password-reset" =>
              (pc'[p] = "done" /\ loc'[p].resp.status >= 400)]_vars

\* C35: no endpoint issues a token pair for a soft-deleted user: a login, oauth
\* (existing-link and merge paths), refresh or reset-password handler goes on from its
\* user lookup towards generateTokenPair only when the user it resolved is not
\* soft-deleted.
C35_NoPairForDeletedUser ==
    [][\A p \in Procs :
          ( /\ pc[p] \in {"idle", "oauth_find_user"}
            /\ pc'[p] \in {"login_rehash", "login_tokens", "oauth_tokens", "oauth_link",
                           "refresh_revoke", "reset_update"} )
            => \A u \in users : u.id = loc'[p].snap.userId => ~u.deleted]_vars

\* C34: once change-password or reset-password (new password "password-b") has
\* answered 200 for the user, the stored passwordHash verifies the new password and
\* not the old one, whatever a concurrent login with the old password does.
C34_NewPasswordStays ==
    \A p \in Procs :
        ( /\ pc[p] = "done" /\ loc[p].op \in {"changePassword", "resetPassword"}
          /\ loc[p].resp.status = 200 )
          => \A u \in users :
                /\ verify(u.passwordHash, "password-b")
                /\ ~verify(u.passwordHash, "password-a")

====
